---- MODULE Spec2Model ----
(***************************************************************************)
(* tortue-bencode: the byte parser (src/parser.rs, src/parser/), the       *)
(* writer (src/writer.rs), the value equality (src/lib.rs) and the typed   *)
(* bridge                                                                  *)
(* (src/ser.rs, src/de.rs), as state machines over the values they work on *)
(*                                                                         *)
(* A byte is a number 0..255, a byte string a sequence of bytes.  A 64-bit *)
(* integer is kept as sign and decimal magnitude (most significant digit   *)
(* first, no leading zero), so that the range checks of i64 and u32 are    *)
(* exact although the numbers exceed the checker's machine integers.       *)
(***************************************************************************)
EXTENDS Integers, Sequences, FiniteSets, TLC

VARIABLES
    overflow_checks, \* the build: TRUE panics on integer overflow, FALSE wraps
    pc,              \* position of the driver that is running
    toks,            \* the chunks the input buffer was assembled from
    input,           \* the byte buffer handed to the parser
    parsed,          \* result of parse(input)
    all,             \* result of parse_all(input)
    partial,         \* result of parse_all_incomplete(input)
    number,          \* result of parse_int(input)
    data,            \* the Value handed to the writer
    bytes,           \* the sink the writer wrote to
    wrote,           \* TRUE once write returned Ok
    again,           \* result of parsing the written bytes
    entries,         \* the (key, value bytes) pairs a dictionary encoding is made of
    dict,            \* result of parse_dictionary(input)
    record,          \* the typed record handed to to_value
    encoded,         \* the Value to_value returned
    back,            \* result of from_value(encoded)
    left,            \* the Value on the left of ==
    right,           \* the Value on the right of ==
    same,            \* result of left == right
    mirrored,        \* result of right == left
    target,          \* the type from_value is asked for
    access,          \* the MapAccess a visitor is handed by deserialize_map
    pulls            \* what the visitor called on the access and what it got, in order

vars == <<overflow_checks, pc, toks, input, parsed, all, partial, number, data, bytes, wrote, again, entries, dict, record, encoded, back, left, right, same, mirrored, target, access, pulls>>

(***************************************************************************)
(* Bytes                                                                   *)
(***************************************************************************)
B_colon == 58
B_minus == 45
B_zero == 48
B_d == 100
B_e == 101
B_i == 105
B_l == 108

is_digit(c) == c \in 48..57

Digits == {c \in 0..255 : is_digit(c)}

DigitsOrMinus == Digits \cup {B_minus}

SeqMin(S) == CHOOSE x \in S : \A y \in S : x <= y

\* the bytes of s from position j (1-based) to the end
Drop(s, j) == SubSeq(s, j, Len(s))

Take(s, n) == SubSeq(s, 1, n)

\* number of leading bytes of s that lie in S
RunLen(s, S) ==
    LET stops == {j \in 1..Len(s) : s[j] \notin S}
    IN  IF stops = {} THEN Len(s) ELSE SeqMin(stops) - 1

(***************************************************************************)
(* Decimal numerals.  A magnitude is a sequence of digit values 0..9.      *)
(***************************************************************************)
U32_MAX == <<4, 2, 9, 4, 9, 6, 7, 2, 9, 5>>
I64_MAX == <<9, 2, 2, 3, 3, 7, 2, 0, 3, 6, 8, 5, 4, 7, 7, 5, 8, 0, 7>>
I64_MIN_MAG == <<9, 2, 2, 3, 3, 7, 2, 0, 3, 6, 8, 5, 4, 7, 7, 5, 8, 0, 8>>

\* digit values of a run of ASCII digits, leading zeros removed
Magnitude(ds) ==
    LET nz == {j \in 1..Len(ds) : ds[j] # B_zero}
        from == IF nz = {} THEN Len(ds) ELSE SeqMin(nz)
    IN  [j \in 1..(Len(ds) - from + 1) |-> ds[from + j - 1] - B_zero]

MagLess(a, b) ==
    \/ Len(a) < Len(b)
    \/ /\ Len(a) = Len(b)
       /\ \E j \in 1..Len(a) : a[j] < b[j] /\ \A k \in 1..(j - 1) : a[k] = b[k]

MagLeq(a, b) == a = b \/ MagLess(a, b)

RECURSIVE MagToNat(_)
MagToNat(m) == IF m = <<>> THEN 0 ELSE 10 * MagToNat(Take(m, Len(m) - 1)) + m[Len(m)]

\* the decimal digits (as bytes) of a natural number, as format!("{}", n) prints it
RECURSIVE NatToDec(_)
NatToDec(n) == IF n < 10 THEN <<B_zero + n>> ELSE NatToDec(n \div 10) \o <<B_zero + (n % 10)>>

MagToDec(m) == [j \in 1..Len(m) |-> B_zero + m[j]]

(***************************************************************************)
(* nom results                                                             *)
(***************************************************************************)
Ok(rest, v) == [k |-> "Ok", rest |-> rest, v |-> v]
Error(at, code) == [k |-> "Error", at |-> at, code |-> code]
Incomplete(n) == [k |-> "Incomplete", need |-> n]
Panic == [k |-> "Panic"]
\* Err(Error::Message(..)) of the bridge
Err == [k |-> "Err"]

is_ok(r) == r.k = "Ok"
is_error(r) == r.k = "Error"

\* the element of a set of one element: Only({e(x) : x \in {v}}) is e(v), with v
\* computed once
Only(S) == CHOOSE x \in S : TRUE

(***************************************************************************)
(* Values                                                                  *)
(***************************************************************************)
Binary(b) == [t |-> "Binary", b |-> b]
BinaryOwned(b) == [t |-> "BinaryOwned", b |-> b]
String(b) == [t |-> "String", b |-> b]
StringOwned(b) == [t |-> "StringOwned", b |-> b]
Integer(n) == [t |-> "Integer", n |-> n]
List(l) == [t |-> "List", l |-> l]
Dictionary(m) == [t |-> "Dictionary", m |-> m]
DictionaryOwned(m) == [t |-> "DictionaryOwned", m |-> m]
None == [t |-> "None"]

\* an i64 as sign and magnitude; zero has no sign
I64(neg, mag) == [neg |-> neg /\ mag # <<0>>, mag |-> mag]

(***************************************************************************)
(* UTF-8 validation, as std::str::from_utf8 decides it                     *)
(***************************************************************************)
Cont(s, j) == j <= Len(s) /\ s[j] \in 128..191

RECURSIVE utf8_from(_, _)
utf8_from(s, j) ==
    IF j > Len(s) THEN TRUE
    ELSE LET c == s[j] IN
         IF c < 128 THEN utf8_from(s, j + 1)
         ELSE IF c \in 194..223 THEN Cont(s, j + 1) /\ utf8_from(s, j + 2)
         ELSE IF c \in 224..239 THEN
              /\ Cont(s, j + 1) /\ Cont(s, j + 2)
              /\ (c = 224 => s[j + 1] >= 160)
              /\ (c = 237 => s[j + 1] <= 159)
              /\ utf8_from(s, j + 3)
         ELSE IF c \in 240..244 THEN
              /\ Cont(s, j + 1) /\ Cont(s, j + 2) /\ Cont(s, j + 3)
              /\ (c = 240 => s[j + 1] >= 144)
              /\ (c = 244 => s[j + 1] <= 143)
              /\ utf8_from(s, j + 4)
         ELSE FALSE

from_utf8(s) == utf8_from(s, 1)

\* number of characters of a valid UTF-8 string: the bytes that start one
chars_count(s) == Cardinality({j \in 1..Len(s) : s[j] \notin 128..191})

(***************************************************************************)
(* nom combinators (complete variants), as the parsers below use them      *)
(***************************************************************************)
\* tag / char: the input must start with byte c
tag(c, i, code) ==
    IF Len(i) >= 1 /\ i[1] = c THEN Ok(Drop(i, 2), <<c>>) ELSE Error(i, code)

\* take_while_m_n(1, 20, cond): the leading run of bytes in S, 20 at most
take_while_m_n(m, n, S, i) ==
    LET run == RunLen(i, S)
        got == IF run > n THEN n ELSE run
    IN  IF run >= m THEN Ok(Drop(i, got + 1), Take(i, got))
        ELSE Error(i, "TakeWhileMN")

(***************************************************************************)
(* src/parser/string.rs                                                    *)
(***************************************************************************)
\* a conversion that validates nothing
parse_utf8_str_unchecked(i) == Ok(<<>>, i)

parse_utf8_str(i) == IF from_utf8(i) THEN Ok(<<>>, i) ELSE Error(i, "Verify")

\* u32::from_str_radix(input, 10) on a run of digits: Err on overflow
string_parse_base10(ds) ==
    LET m == Magnitude(ds)
    IN  IF MagLeq(m, U32_MAX) THEN [ok |-> TRUE, v |-> m] ELSE [ok |-> FALSE]

\* a length of 10^9 or more stands for itself in every comparison with the
\* length of a buffer, which is all the parsers do with it
BigLength == 1000000001

\* v + 1 on a u32: 4294967295 + 1 panics with overflow checks and wraps to 0
\* without them
u32_succ(m, checks) ==
    IF m = U32_MAX THEN (IF checks THEN [panic |-> TRUE] ELSE [panic |-> FALSE, v |-> 0])
    ELSE IF Len(m) <= 9 THEN [panic |-> FALSE, v |-> MagToNat(m) + 1]
    ELSE [panic |-> FALSE, v |-> BigLength]

\* the length after take_while_m_n returned run and parse_utf8_str str
base10_length_of(i, checks, run, str) ==
    IF ~is_ok(str) THEN Error(i, "MapRes")
    ELSE Only({ IF ~num.ok THEN Error(i, "MapRes")
                ELSE Only({ IF n.panic THEN Panic ELSE Ok(run.rest, n.v) :
                            n \in {u32_succ(num.v, checks)} }) :
                num \in {string_parse_base10(str.v)} })

base10_length(i, checks) ==
    Only({ IF ~is_ok(run) THEN run
           ELSE base10_length_of(i, checks, run, parse_utf8_str(run.v)) :
           run \in {take_while_m_n(1, 20, Digits, i)} })

\* a remainder that is the declared bytes themselves
preceded_body(body, rest, utf8) ==
    Only({ IF ~is_ok(colon) THEN colon
           ELSE IF ~utf8 THEN Ok(body, colon.rest)
           ELSE Only({ IF is_ok(str) THEN Ok(body, str.v) ELSE str :
                       str \in {parse_utf8_str(colon.rest)} }) :
           colon \in {tag(B_colon, body, "Tag")} })

\* length_value(base10_length, preceded(tag(":"), g)): g is applied to the
\* declared bytes after the colon; utf8 selects parse_utf8_str as g
\* preceded(tag(":"), g) on the declared bytes body, with rest after them
preceded(body, rest, utf8) ==
    Only({ IF ~is_ok(colon) THEN colon
           ELSE IF ~utf8 THEN Ok(rest, colon.rest)
           ELSE Only({ IF is_ok(str) THEN Ok(rest, str.v) ELSE str :
                       str \in {parse_utf8_str(colon.rest)} }) :
           colon \in {tag(B_colon, body, "Tag")} })

length_value(i, checks, utf8) ==
    Only({ IF ~is_ok(len) THEN len
           ELSE IF Len(len.rest) < len.v THEN Incomplete(len.v)
           ELSE preceded(Take(len.rest, len.v), Drop(len.rest, len.v + 1), utf8) :
           len \in {base10_length(i, checks)} })

parse_string(i, checks) == length_value(i, checks, TRUE)

(***************************************************************************)
(* src/parser/bytes.rs                                                     *)
(***************************************************************************)
parse_bytes(i, checks) == length_value(i, checks, FALSE)

(***************************************************************************)
(* src/parser/int.rs                                                       *)
(***************************************************************************)
\* i64::from_str_radix(input, 10) on a run of digits and '-': a sign is read
\* in first place only, at least one digit must follow, Err on overflow
int_parse_base10(s) ==
    LET neg == Len(s) >= 1 /\ s[1] = B_minus
        ds == IF neg THEN Drop(s, 2) ELSE s
        m == Magnitude(ds)
    IN  IF ds = <<>> \/ \E j \in 1..Len(ds) : ~is_digit(ds[j]) THEN [ok |-> FALSE]
        ELSE IF MagLeq(m, IF neg THEN I64_MIN_MAG ELSE I64_MAX)
             THEN [ok |-> TRUE, v |-> I64(neg, m)]
        ELSE [ok |-> FALSE]

\* the number after take_while_m_n returned run and parse_utf8_str str
base10_primary_of(i, run, str) ==
    IF ~is_ok(str) THEN Error(i, "MapRes")
    ELSE Only({ IF ~num.ok THEN Error(i, "MapRes") ELSE Ok(run.rest, num.v) :
                num \in {int_parse_base10(str.v)} })

\* a digit run that takes no sign
base10_primary_unsigned(i) ==
    Only({ IF ~is_ok(run) THEN run
           ELSE base10_primary_of(i, run, parse_utf8_str(run.v)) :
           run \in {take_while_m_n(1, 20, Digits, i)} })

base10_primary(i) ==
    Only({ IF ~is_ok(run) THEN run
           ELSE base10_primary_of(i, run, parse_utf8_str(run.v)) :
           run \in {take_while_m_n(1, 20, DigitsOrMinus, i)} })

\* delimited(open, inner, close) once inner has returned: the closing tag is
\* looked for after it and the value is inner's
delimited(inner, c, code) ==
    IF ~is_ok(inner) THEN inner
    ELSE Only({ IF ~is_ok(close) THEN close ELSE Ok(close.rest, inner.v) :
                close \in {tag(c, inner.rest, code)} })

parse_int(i) ==
    Only({ IF ~is_ok(open) THEN open
           ELSE delimited(base10_primary(open.rest), B_e, "Tag") :
           open \in {tag(B_i, i, "Tag")} })

(***************************************************************************)
(* src/parser.rs, src/parser/list.rs, src/parser/dictionary.rs             *)
(***************************************************************************)
\* the variant of BencodedValue named t around x
Variant(t, x) ==
    CASE t = "String" -> String(x)
      [] t = "Binary" -> Binary(x)
      [] t = "Integer" -> Integer(x)
      [] t = "List" -> List(x)
      [] t = "Dictionary" -> Dictionary(x)

\* map(parser, BencodedValue::t): the variant around the output of a
\* successful parse
map(r, t) == IF is_ok(r) THEN Ok(r.rest, Variant(t, r.v)) ELSE r

SeqMax(S) == CHOOSE x \in S : \A y \in S : x >= y

\* a collection that keeps the first pair of a key
collect_map_first(pairs) ==
    LET keys == {pairs[j][1] : j \in 1..Len(pairs)}
    IN  [key \in keys |-> pairs[SeqMin({j \in 1..Len(pairs) : pairs[j][1] = key})][2]]

\* collect::<HashMap<_, _>>() of (key, value) pairs: a later pair replaces an
\* earlier one with the same key
collect_map(pairs) ==
    LET keys == {pairs[j][1] : j \in 1..Len(pairs)}
    IN  [key \in keys |-> pairs[SeqMax({j \in 1..Len(pairs) : pairs[j][1] = key})][2]]

RECURSIVE parse(_, _)
RECURSIVE iterator(_, _, _)
RECURSIVE many0(_, _, _)
RECURSIVE parse_list(_, _)
RECURSIVE parse_dictionary(_, _)

\* iterator(input, parse) driven by collect(): the values parsed, the input left
\* and the state it stopped in (Done after an Err::Error, else the Incomplete
\* or the panic that ended it)
iterator(i, checks, values) ==
    Only({ IF is_ok(r) THEN iterator(r.rest, checks, Append(values, r.v))
           ELSE [values |-> values, input |-> i,
                 state |-> IF is_error(r) THEN [k |-> "Done"] ELSE r] :
           r \in {parse(i, checks)} })

parse_all_no_group(i, checks) ==
    Only({ IF iter.state.k # "Done" THEN iter.state ELSE Ok(iter.input, iter.values) :
           iter \in {iterator(i, checks, <<>>)} })

\* a list that holds its elements grouped once more
parse_list_nested(i, checks) ==
    Only({ IF ~is_ok(open) THEN open
           ELSE delimited(Only({ IF is_ok(r) THEN Ok(r.rest, List(<<List(r.v)>>)) ELSE r :
                                 r \in {parse_all_no_group(open.rest, checks)} }), B_e, "Tag") :
           open \in {tag(B_l, i, "Tag")} })

parse_list(i, checks) ==
    Only({ IF ~is_ok(open) THEN open
           ELSE delimited(map(parse_all_no_group(open.rest, checks), "List"), B_e, "Tag") :
           open \in {tag(B_l, i, "Tag")} })

\* many0(pair(parse_string, parse))
many0(i, checks, acc) ==
    Only({ IF is_error(key) THEN Ok(i, acc)
           ELSE IF ~is_ok(key) THEN key
           ELSE Only({ IF is_error(value) THEN Ok(i, acc)
                       ELSE IF ~is_ok(value) THEN value
                       ELSE IF value.rest = i THEN Error(i, "Many0")
                       ELSE many0(value.rest, checks, Append(acc, <<key.v, value.v>>)) :
                       value \in {parse(key.rest, checks)} }) :
           key \in {parse_string(i, checks)} })

\* map(many0(..), |value| value.into_iter().collect())
collected(pairs) == IF is_ok(pairs) THEN Ok(pairs.rest, collect_map(pairs.v)) ELSE pairs

parse_dictionary(i, checks) ==
    Only({ IF ~is_ok(open) THEN open
           ELSE delimited(collected(many0(open.rest, checks, <<>>)), B_e, "Char") :
           open \in {tag(B_d, i, "Char")} })

\* alt((string, bytes, int, list, dictionary)) on the results of the branches
\* (an operand is computed only when it is looked at): the next branch is tried after
\* an Err::Error only, and when every branch fails the error reported is the
\* first branch's (parse_tests::test_int and test_string)
alt(r1, r2, r3, r4, r5) ==
    IF ~is_error(r1) THEN r1
    ELSE IF ~is_error(r2) THEN r2
    ELSE IF ~is_error(r3) THEN r3
    ELSE IF ~is_error(r4) THEN r4
    ELSE IF ~is_error(r5) THEN r5
    ELSE r1

\* text handed out as an owned string
parse_owned(i, checks) ==
    alt(Only({ IF is_ok(r) THEN Ok(r.rest, StringOwned(r.v)) ELSE r :
               r \in {parse_string(i, checks)} }),
        map(parse_bytes(i, checks), "Binary"),
        map(parse_int(i), "Integer"),
        parse_list(i, checks),
        map(parse_dictionary(i, checks), "Dictionary"))

parse(i, checks) ==
    alt(map(parse_string(i, checks), "String"),
        map(parse_bytes(i, checks), "Binary"),
        map(parse_int(i), "Integer"),
        parse_list(i, checks),
        map(parse_dictionary(i, checks), "Dictionary"))

\* a grouping that wraps a single value in a list as well
parse_all_incomplete_list(i, checks) ==
    Only({ IF iter.state.k # "Done" THEN iter.state
           ELSE IF iter.values = <<>> THEN Ok(iter.input, None)
           ELSE Ok(iter.input, List(iter.values)) :
           iter \in {iterator(i, checks, <<>>)} })

parse_all_incomplete(i, checks) ==
    Only({ IF iter.state.k # "Done" THEN iter.state
           ELSE IF iter.values = <<>> THEN Ok(iter.input, None)
           ELSE IF Len(iter.values) = 1 THEN Ok(iter.input, iter.values[1])
           ELSE Ok(iter.input, List(iter.values)) :
           iter \in {iterator(i, checks, <<>>)} })

\* all_consuming(r)
all_consuming(r) ==
    IF ~is_ok(r) THEN r
    ELSE IF Len(r.rest) = 0 THEN r ELSE Error(r.rest, "Eof")

parse_all(i, checks) == all_consuming(parse_all_incomplete(i, checks))

(***************************************************************************)
(* src/writer.rs.  The sink is a Vec<u8>, whose write_all never fails, so  *)
(* every write returns Ok and what is modelled is the bytes written.  A    *)
(* HashMap is iterated in an order its hasher picks: write yields the set  *)
(* of byte strings that the possible orders give.                          *)
(***************************************************************************)
\* the orders in which iter() may visit the keys of a map
iter_orders(m) ==
    LET n == Cardinality(DOMAIN m)
    IN  {o \in [1..n -> DOMAIN m] : \A a, b \in 1..n : a # b => o[a] # o[b]}

write_bin(value) == NatToDec(Len(value)) \o <<B_colon>> \o value

\* a length counted in characters
write_str_chars(str) == NatToDec(chars_count(str)) \o <<B_colon>> \o str

\* format!("{}:{}", str.len(), str): len() is the length in bytes
write_str(str) == NatToDec(Len(str)) \o <<B_colon>> \o str

\* a writer that loses the sign
write_int_unsigned(int) == <<B_i>> \o MagToDec(int.mag) \o <<B_e>>

\* format!("i{}e", int)
write_int(int) ==
    <<B_i>> \o (IF int.neg THEN <<B_minus>> ELSE <<>>) \o MagToDec(int.mag) \o <<B_e>>

RECURSIVE write(_)
RECURSIVE write_each(_)
RECURSIVE write_entries(_, _)

\* the elements of a list written one after the other
write_each(list) ==
    IF list = <<>> THEN {<<>>}
    ELSE {head \o tail : head \in write(list[1]), tail \in write_each(Drop(list, 2))}

\* a list that is not closed
write_list_unterminated(list) == {<<B_l>> \o body : body \in write_each(list)}

write_list(list) == {<<B_l>> \o body \o <<B_e>> : body \in write_each(list)}

\* the entries of a map written in the order o: key, then value
write_entries(m, o) ==
    IF o = <<>> THEN {<<>>}
    ELSE {write_str(o[1]) \o value \o tail :
              value \in write(m[o[1]]), tail \in write_entries(m, Drop(o, 2))}

write_dict(m) ==
    UNION {{<<B_d>> \o body \o <<B_e>> : body \in write_entries(m, o)} : o \in iter_orders(m)}

write_owned_dict(m) ==
    UNION {{<<B_d>> \o body \o <<B_e>> : body \in write_entries(m, o)} : o \in iter_orders(m)}

write(value) ==
    CASE value.t = "Binary" -> {write_bin(value.b)}
      [] value.t = "String" -> {write_str(value.b)}
      [] value.t = "Integer" -> {write_int(value.n)}
      [] value.t = "List" -> write_list(value.l)
      [] value.t = "Dictionary" -> write_dict(value.m)
      [] value.t = "None" -> {<<>>}
      [] value.t = "BinaryOwned" -> {write_bin(value.b)}
      [] value.t = "StringOwned" -> {write_str(value.b)}
      [] value.t = "DictionaryOwned" -> write_owned_dict(value.m)

(***************************************************************************)
(* src/lib.rs: impl PartialEq for BencodedValue, arm by arm.  eq(a, b) is  *)
(* a == b with a as self.                                                  *)
(***************************************************************************)
BinFamily == {"Binary", "BinaryOwned"}
StrFamily == {"String", "StringOwned"}

RECURSIVE eq(_, _)

\* Vec == Vec: same length and the elements equal in order
vec_eq(list1, list2) ==
    /\ Len(list1) = Len(list2)
    /\ \A j \in 1..Len(list1) : eq(list1[j], list2[j])

\* HashMap == HashMap: same size and every entry of self found equal in other
hashmap_eq(dict1, dict2) ==
    /\ Cardinality(DOMAIN dict1) = Cardinality(DOMAIN dict2)
    /\ \A key \in DOMAIN dict1 : key \in DOMAIN dict2 /\ eq(dict1[key], dict2[key])

\* !dict1.iter().any(|(k1, v1)| dict2.get(k1) != Some(v1))
no_entry_differs(dict1, dict2) ==
    ~\E k1 \in DOMAIN dict1 : ~(k1 \in DOMAIN dict2 /\ eq(dict2[k1], dict1[k1]))

eq(self, other) ==
    CASE self.t \in BinFamily /\ other.t \in BinFamily -> self.b = other.b
      [] self.t \in BinFamily /\ other.t \in StrFamily -> self.b = other.b
      [] self.t \in StrFamily /\ other.t \in BinFamily -> other.b = self.b
      [] self.t = "String" /\ other.t = "String" -> self.b = other.b
      [] self.t = "StringOwned" /\ other.t = "String" -> self.b = other.b
      [] self.t = "String" /\ other.t = "StringOwned" -> self.b = other.b
      [] self.t = "Integer" /\ other.t = "Integer" -> self.n = other.n
      [] self.t = "List" /\ other.t = "List" -> vec_eq(self.l, other.l)
      [] self.t = "Dictionary" /\ other.t = "Dictionary" -> hashmap_eq(self.m, other.m)
      [] self.t = "DictionaryOwned" /\ other.t = "DictionaryOwned" ->
            hashmap_eq(self.m, other.m)
      [] self.t = "DictionaryOwned" /\ other.t = "Dictionary" ->
            no_entry_differs(self.m, other.m)
      [] self.t = "Dictionary" /\ other.t = "DictionaryOwned" ->
            no_entry_differs(self.m, other.m)
      [] OTHER -> FALSE

(***************************************************************************)
(* The input buffers.  A buffer is put together from at most MaxToks       *)
(* chunks; the chunks are the tokens of the format, some whole values and  *)
(* the numerals at which the length and integer arithmetic changes.        *)
(***************************************************************************)
MaxToks == 3

T_a == <<49, 58, 97>>                    \* 1:a
T_empty == <<48, 58>>                    \* 0:
T_bin == <<49, 58, 255>>                 \* 1:\xFF
T_wide == <<50, 58, 195, 169>>           \* 2:\xC3\xA9, one two-byte character
T_short == <<50, 58, 97>>                \* 2:a, one byte short
T_int == <<105, 52, 101>>                \* i4e
T_neg == <<105, 45>>                     \* i-
T_pair == <<49, 58, 97, 105, 52, 101>>   \* 1:ai4e
T_last == <<49, 58, 98, 48, 58, 101>>    \* 1:b0:e
T_u32max == <<52, 50, 57, 52, 57, 54, 55, 50, 57, 53>>  \* 4294967295
T_i64max == <<57, 50, 50, 51, 51, 55, 50, 48, 51, 54, 56, 53, 52, 55, 55, 53, 56, 48, 55>>
T_i64over == <<57, 50, 50, 51, 51, 55, 50, 48, 51, 54, 56, 53, 52, 55, 55, 53, 56, 48, 56>>
T_zeros == [j \in 1..20 |-> B_zero]      \* twenty zeros

Tokens ==
    { <<B_d>>, <<B_l>>, <<B_e>>, <<B_i>>, <<B_minus>>, <<B_colon>>, <<B_zero>>, <<50>>,
      T_a, T_empty, T_bin, T_wide, T_short, T_int, T_neg, T_pair, T_last,
      T_u32max, T_i64max, T_i64over, T_zeros }

Unset == [k |-> "Unset"]

Init ==
    /\ overflow_checks \in BOOLEAN
    /\ pc = "feed"
    /\ toks = <<>>
    /\ input = <<>>
    /\ parsed = Unset
    /\ all = Unset
    /\ partial = Unset
    /\ number = Unset
    /\ data = None
    /\ bytes = <<>>
    /\ wrote = FALSE
    /\ again = Unset
    /\ entries = <<>>
    /\ dict = Unset
    /\ record = Unset
    /\ encoded = Unset
    /\ back = Unset
    /\ target = Unset
    /\ access = Unset
    /\ pulls = <<>>
    /\ left = None
    /\ right = None
    /\ same = FALSE
    /\ mirrored = FALSE

\* the caller appends a chunk to the buffer
Feed(tok) ==
    /\ pc = "feed"
    /\ Len(toks) < MaxToks
    /\ toks' = Append(toks, tok)
    /\ input' = input \o tok
    /\ UNCHANGED <<overflow_checks, pc, parsed, all, partial, number, data, bytes, wrote, again, entries, dict, record, encoded, back, left, right, same, mirrored, target, access, pulls>>

\* parse(input)
Parse ==
    /\ pc = "feed"
    /\ parsed' = parse(input, overflow_checks)
    /\ pc' = "parsed"
    /\ UNCHANGED <<overflow_checks, toks, input, all, partial, number, data, bytes, wrote, again, entries, dict, record, encoded, back, left, right, same, mirrored, target, access, pulls>>

\* parse_all(input)
ParseAll ==
    /\ pc = "feed"
    /\ all' = parse_all(input, overflow_checks)
    /\ pc' = "all"
    /\ UNCHANGED <<overflow_checks, toks, input, parsed, partial, number, data, bytes, wrote, again, entries, dict, record, encoded, back, left, right, same, mirrored, target, access, pulls>>

\* parse_all_incomplete(input)
ParseAllIncomplete ==
    /\ pc = "feed"
    /\ partial' = parse_all_incomplete(input, overflow_checks)
    /\ pc' = "partial"
    /\ UNCHANGED <<overflow_checks, toks, input, parsed, all, number, data, bytes, wrote, again, entries, dict, record, encoded, back, left, right, same, mirrored, target, access, pulls>>

\* parse_int(input)
ParseInt ==
    /\ pc = "feed"
    /\ number' = parse_int(input)
    /\ pc' = "int"
    /\ UNCHANGED <<overflow_checks, toks, input, parsed, all, partial, data, bytes, wrote, again, entries, dict, record, encoded, back, left, right, same, mirrored, target, access, pulls>>

\* write(&parsed, &mut bytes) of the value a parse returned
Write ==
    /\ pc = "parsed"
    /\ is_ok(parsed)
    /\ data' = parsed.v
    /\ \E out \in write(parsed.v) : bytes' = out
    /\ wrote' = TRUE
    /\ pc' = "written"
    /\ UNCHANGED <<overflow_checks, toks, input, parsed, all, partial, number, again, entries, dict, record, encoded, back, left, right, same, mirrored, target, access, pulls>>

\* parse(&bytes) of what was written
ParseAgain ==
    /\ pc = "written"
    /\ again' = parse(bytes, overflow_checks)
    /\ pc' = "again"
    /\ UNCHANGED <<overflow_checks, toks, input, parsed, all, partial, number, data, bytes, wrote, entries, dict, record, encoded, back, left, right, same, mirrored, target, access, pulls>>

\* fuzz_targets/random_parse.rs: parse, write what was parsed, parse it again
Next ==
    \/ \E tok \in Tokens : Feed(tok)
    \/ Parse
    \/ Write
    \/ ParseAgain

Spec == Init /\ [][Next]_vars

\* the two grouping drivers on the same buffers
NextAll ==
    \/ \E tok \in Tokens : Feed(tok)
    \/ ParseAll
    \/ ParseAllIncomplete

SpecAll == Init /\ [][NextAll]_vars

\* the integer parser on the same buffers
NextInt ==
    \/ \E tok \in Tokens : Feed(tok)
    \/ ParseInt

SpecInt == Init /\ [][NextInt]_vars

(***************************************************************************)
(* Dictionary encodings: d, at most MaxEntries entries, e.  An entry is a  *)
(* key as length-prefixed string and the encoding of a value.              *)
(***************************************************************************)
MaxEntries == 3

\* a, b and a byte that is not UTF-8
DictKeys == {<<97>>, <<98>>, <<255>>}

\* i4e, 1:a, 1:\xFF, le and d1:ai4ee
DictValues == {T_int, T_a, T_bin, <<B_l, B_e>>, <<B_d>> \o T_pair \o <<B_e>>}

\* the bytes of the entries one after the other
RECURSIVE Flatten(_)
Flatten(es) ==
    IF es = <<>> THEN <<>>
    ELSE NatToDec(Len(es[1][1])) \o <<B_colon>> \o es[1][1] \o es[1][2] \o Flatten(Drop(es, 2))

\* the caller appends an entry
AddEntry(key, value) ==
    /\ pc = "feed"
    /\ Len(entries) < MaxEntries
    /\ entries' = Append(entries, <<key, value>>)
    /\ UNCHANGED <<overflow_checks, pc, toks, input, parsed, all, partial, number, data, bytes, wrote, again, dict, record, encoded, back, left, right, same, mirrored, target, access, pulls>>

\* parse_dictionary on the encoding of the entries
ParseDictionary ==
    /\ pc = "feed"
    /\ input' = <<B_d>> \o Flatten(entries) \o <<B_e>>
    /\ dict' = parse_dictionary(input', overflow_checks)
    /\ pc' = "dict"
    /\ UNCHANGED <<overflow_checks, toks, parsed, all, partial, number, data, bytes, wrote, again, entries, record, encoded, back, left, right, same, mirrored, target, access, pulls>>

NextDict ==
    \/ \E key \in DictKeys, value \in DictValues : AddEntry(key, value)
    \/ ParseDictionary

SpecDict == Init /\ [][NextDict]_vars

(***************************************************************************)
(* The values handed to the writer.  A value is built the way Arbitrary    *)
(* builds one, from the inside out: a leaf, then lists and dictionaries    *)
(* around it, MaxDepth containers deep, MaxLen elements or entries wide.   *)
(***************************************************************************)
MaxDepth == 2
MaxLen == 2

\* the smallest i64, twenty bytes when written
I64_MIN == I64(TRUE, I64_MIN_MAG)

\* a and a character of two bytes
ValueKeys == {<<97>>, <<195, 169>>}

Scalars ==
    { BinaryOwned(<<255>>), BinaryOwned(<<97>>), Binary(<<255>>),
      String(<<97>>), StringOwned(<<195, 169>>), StringOwned(<<>>),
      Integer(I64_MIN), Integer(I64(FALSE, <<4>>)), None }

Leaves == Scalars \cup {List(<<>>), DictionaryOwned(<<>>), Dictionary(<<>>)}

is_dict(v) == v.t \in {"Dictionary", "DictionaryOwned"}

NatMax(S) == IF S = {} THEN 0 ELSE SeqMax(S)

\* how many containers deep a value is
RECURSIVE Depth(_)
Depth(v) ==
    IF v.t = "List" THEN 1 + NatMax({Depth(v.l[j]) : j \in 1..Len(v.l)})
    ELSE IF is_dict(v) THEN 1 + NatMax({Depth(v.m[k]) : k \in DOMAIN v.m})
    ELSE 0

\* the caller starts from a leaf
Leaf(v) ==
    /\ pc = "feed"
    /\ data = None
    /\ data' = v
    /\ UNCHANGED <<overflow_checks, pc, toks, input, parsed, all, partial, number, bytes, wrote, again, entries, dict, record, encoded, back, left, right, same, mirrored, target, access, pulls>>

\* BencodedValue::List of the value built so far
WrapList ==
    /\ pc = "feed"
    /\ Depth(data) < MaxDepth
    /\ data' = List(<<data>>)
    /\ UNCHANGED <<overflow_checks, pc, toks, input, parsed, all, partial, number, bytes, wrote, again, entries, dict, record, encoded, back, left, right, same, mirrored, target, access, pulls>>

\* one more element at the end of the list
PushList(v) ==
    /\ pc = "feed"
    /\ data.t = "List"
    /\ Len(data.l) \in 1..(MaxLen - 1)
    /\ Depth(List(Append(data.l, v))) <= MaxDepth
    /\ data' = List(Append(data.l, v))
    /\ UNCHANGED <<overflow_checks, pc, toks, input, parsed, all, partial, number, bytes, wrote, again, entries, dict, record, encoded, back, left, right, same, mirrored, target, access, pulls>>

\* a dictionary, owned or borrowed, with the value built so far under a key
WrapDict(key, owned) ==
    /\ pc = "feed"
    /\ Depth(data) < MaxDepth
    /\ data' = IF owned THEN DictionaryOwned((key :> data)) ELSE Dictionary((key :> data))
    /\ UNCHANGED <<overflow_checks, pc, toks, input, parsed, all, partial, number, bytes, wrote, again, entries, dict, record, encoded, back, left, right, same, mirrored, target, access, pulls>>

\* one more entry under a key the dictionary does not hold
Insert(key, v) ==
    /\ pc = "feed"
    /\ is_dict(data)
    /\ Cardinality(DOMAIN data.m) \in 1..(MaxLen - 1)
    /\ key \notin DOMAIN data.m
    /\ Depth([data EXCEPT !.m = (key :> v) @@ data.m]) <= MaxDepth
    /\ data' = [data EXCEPT !.m = (key :> v) @@ data.m]
    /\ UNCHANGED <<overflow_checks, pc, toks, input, parsed, all, partial, number, bytes, wrote, again, entries, dict, record, encoded, back, left, right, same, mirrored, target, access, pulls>>

\* write(&data, &mut bytes)
WriteData ==
    /\ pc = "feed"
    /\ \E out \in write(data) : bytes' = out
    /\ wrote' = TRUE
    /\ pc' = "written"
    /\ UNCHANGED <<overflow_checks, toks, input, parsed, all, partial, number, data, again, entries, dict, record, encoded, back, left, right, same, mirrored, target, access, pulls>>

\* fuzz_targets/random_write.rs: write a value, parse what was written
NextValue ==
    \/ \E v \in Leaves : Leaf(v)
    \/ WrapList
    \/ \E v \in Leaves : PushList(v)
    \/ \E key \in ValueKeys, owned \in BOOLEAN : WrapDict(key, owned)
    \/ \E key \in ValueKeys, v \in Leaves : Insert(key, v)
    \/ WriteData
    \/ ParseAgain

SpecValue == Init /\ [][NextValue]_vars

(***************************************************************************)
(* src/lib.rs: two values compared with ==, as the tests of src/ser.rs and *)
(* src/de.rs do with assert_eq!.  The operands are the four variants of    *)
(* the string family over the same byte strings, some other scalars, and   *)
(* dictionaries of both variants built entry by entry.                     *)
(***************************************************************************)
EqBytes == {<<>>, <<97>>, <<195, 169>>}

EqOperands ==
    UNION {{Binary(b), BinaryOwned(b), String(b), StringOwned(b)} : b \in EqBytes}
    \cup {Binary(<<255>>), Integer(I64(FALSE, <<4>>)), None, List(<<>>),
          Dictionary(<<>>), DictionaryOwned(<<>>)}

EqEntryValues == {Integer(I64(FALSE, <<4>>)), String(<<97>>), StringOwned(<<97>>), BinaryOwned(<<97>>)}

\* the caller builds an operand
Operand(side, v) ==
    /\ pc = "feed"
    /\ IF side = "left" THEN left' = v /\ UNCHANGED right
       ELSE right' = v /\ UNCHANGED left
    /\ UNCHANGED <<overflow_checks, toks, input, parsed, all, partial, number, data, bytes, wrote, again, entries, dict, record, encoded, back, pc, same, mirrored, target, access, pulls>>

\* an operand with one more entry
with_entry(v, key, value) == [v EXCEPT !.m = (key :> value) @@ @]

\* the caller inserts an entry into an operand that is a dictionary
InsertEntry(side, key, value) ==
    /\ pc = "feed"
    /\ IF side = "left"
       THEN /\ is_dict(left)
            /\ key \notin DOMAIN left.m
            /\ left' = with_entry(left, key, value)
            /\ UNCHANGED right
       ELSE /\ is_dict(right)
            /\ key \notin DOMAIN right.m
            /\ right' = with_entry(right, key, value)
            /\ UNCHANGED left
    /\ UNCHANGED <<overflow_checks, toks, input, parsed, all, partial, number, data, bytes, wrote, again, entries, dict, record, encoded, back, pc, same, mirrored, target, access, pulls>>

\* left == right and right == left
Compare ==
    /\ pc = "feed"
    /\ same' = eq(left, right)
    /\ mirrored' = eq(right, left)
    /\ pc' = "compared"
    /\ UNCHANGED <<overflow_checks, toks, input, parsed, all, partial, number, data, bytes, wrote, again, entries, dict, record, encoded, back, left, right, target, access, pulls>>

NextEq ==
    \/ \E side \in {"left", "right"}, v \in EqOperands : Operand(side, v)
    \/ \E side \in {"left", "right"}, key \in ValueKeys, value \in EqEntryValues :
          InsertEntry(side, key, value)
    \/ Compare

SpecEq == Init /\ [][NextEq]_vars

(***************************************************************************)
(* Typed records.  A type is bool, one of the integer types, char, string, *)
(* an option, a sequence, a map with string keys or a struct; a record is  *)
(* a type and a payload: a boolean, an integer, the bytes of a character   *)
(* or a string, a sequence of no or one record for an option, a sequence   *)
(* of records for a sequence or the fields of a struct, a function from    *)
(* keys to records for a map.                                              *)
(***************************************************************************)
Ty(k) == [k |-> k]
OptionOf(T) == [k |-> "option", of |-> T]
VecOf(T) == [k |-> "seq", of |-> T]
MapOf(T) == [k |-> "map", of |-> T]
StructOf(names, types) == [k |-> "struct", names |-> names, types |-> types]
\* struct W(T1, T2) and the newtype variant E::name(T)
TupleStructOf(types) == [k |-> "tuple_struct", types |-> types]
VariantOf(name, T) == [k |-> "variant", name |-> name, of |-> T]
\* the tuple variant E::V(T1, ..) and the struct variant E::V { name: T, .. }
TupleVariantOf(types) == [k |-> "tuple_variant", types |-> types]
StructVariantOf(names, types) == [k |-> "struct_variant", names |-> names, types |-> types]

SignedKinds == {"i8", "i16", "i32", "i64"}
UnsignedKinds == {"u8", "u16", "u32", "u64"}
FloatKinds == {"f32", "f64"}

\* the record of type T with payload v
Rec(T, v) ==
    CASE T.k = "bool" -> [ty |-> T, flag |-> v]
      [] T.k \in SignedKinds \cup UnsignedKinds \cup FloatKinds -> [ty |-> T, n |-> v]
      [] T.k = "value" -> [ty |-> T, val |-> v]
      [] T.k \in {"char", "string"} -> [ty |-> T, b |-> v]
      [] T.k = "option" -> [ty |-> T, opt |-> v]
      [] T.k \in {"seq", "struct", "tuple_struct", "tuple_variant", "struct_variant"} ->
            [ty |-> T, l |-> v]
      [] T.k \in {"unit", "unit_struct"} -> [ty |-> T]
      [] T.k = "variant" -> [ty |-> T, inner |-> v]
      [] T.k = "map" -> [ty |-> T, m |-> v]

Bits(k) ==
    CASE k \in {"i8", "u8"} -> 8
      [] k \in {"i16", "u16"} -> 16
      [] k \in {"i32", "u32"} -> 32
      [] k \in {"i64", "u64"} -> 64

(***************************************************************************)
(* Integer casts.  The low 32 bits of a number are kept as two limbs of 16 *)
(* bits, <<high, low>>.                                                    *)
(***************************************************************************)
U64_MAX == <<1, 8, 4, 4, 6, 7, 4, 4, 0, 7, 3, 7, 0, 9, 5, 5, 1, 6, 1, 5>>
TWO_64 == <<1, 8, 4, 4, 6, 7, 4, 4, 0, 7, 3, 7, 0, 9, 5, 5, 1, 6, 1, 6>>

\* a - b - borrow, digit by digit, for magnitudes of equal length
RECURSIVE SubDigits(_, _, _)
SubDigits(a, b, borrow) ==
    IF a = <<>> THEN <<>>
    ELSE SubDigits(Take(a, Len(a) - 1), Take(b, Len(b) - 1),
                   IF a[Len(a)] - b[Len(b)] - borrow < 0 THEN 1 ELSE 0)
         \o <<(a[Len(a)] - b[Len(b)] - borrow + 10) % 10>>

\* a - b for magnitudes a >= b
MagSub(a, b) ==
    Magnitude(MagToDec(SubDigits(a, [j \in 1..Len(a) |->
        IF j <= Len(a) - Len(b) THEN 0 ELSE b[j - (Len(a) - Len(b))]], 0)))

\* v as i64 for a u64 v: values above i64::MAX wrap to negative ones
u64_as_i64(m) ==
    IF MagLeq(m, I64_MAX) THEN I64(FALSE, m) ELSE I64(TRUE, MagSub(TWO_64, m))

\* the low 32 bits of a magnitude
RECURSIVE Low32(_)
Low32(m) ==
    IF m = <<>> THEN <<0, 0>>
    ELSE Only({ <<(p[1] * 10 + (p[2] * 10 + m[Len(m)]) \div 65536) % 65536,
                  (p[2] * 10 + m[Len(m)]) % 65536>> :
                p \in {Low32(Take(m, Len(m) - 1))} })

\* two's complement of 32 bits
Neg32(p) ==
    IF p[2] = 0 THEN <<(65536 - p[1]) % 65536, 0>> ELSE <<65535 - p[1], 65536 - p[2]>>

\* the decimal digits of 32 bits, none for zero
RECURSIVE LimbsToMag(_)
LimbsToMag(p) ==
    IF p = <<0, 0>> THEN <<>>
    ELSE LimbsToMag(<<p[1] \div 10, ((p[1] % 10) * 65536 + p[2]) \div 10>>)
         \o <<((p[1] % 10) * 65536 + p[2]) % 10>>

\* the integer that the low bits of the pattern p are, read as signed or not
FromBits(p, bits, signed) ==
    Only({ IF signed /\ (IF bits = 32 THEN low[1] >= 32768 ELSE low[2] >= 2 ^ (bits - 1))
           THEN I64(TRUE, LimbsToMag(IF bits = 32 THEN Neg32(low) ELSE <<0, 2 ^ bits - low[2]>>))
           ELSE I64(FALSE, IF low = <<0, 0>> THEN <<0>> ELSE LimbsToMag(low)) :
           low \in {IF bits = 32 THEN p ELSE <<0, p[2] % (2 ^ bits)>>} })

\* n as _ for an i64 n and a target of 8, 16 or 32 bits; 64 bits keep n
as_(n, bits, signed) ==
    IF bits = 64 THEN n
    ELSE FromBits(IF n.neg THEN Neg32(Low32(n.mag)) ELSE Low32(n.mag), bits, signed)

(***************************************************************************)
(* src/ser.rs, src/ser/compound.rs.  serialize yields what a record pushes *)
(* on the output of the Serializer, no or one value, for every order in    *)
(* which the maps in it may be iterated; it yields nothing where the call  *)
(* does not return, and Failed where it returns an error.                  *)
(***************************************************************************)
Failed == <<Err>>

\* keys.into_iter().zip(output.into_iter()).collect()
zip_collect(keys, output) ==
    collect_map([j \in 1..(IF Len(keys) < Len(output) THEN Len(keys) ELSE Len(output)) |->
                    <<keys[j], output[j]>>])

RECURSIVE serialize(_)
RECURSIVE serialize_each(_)

\* what the records push one after the other on the same output
serialize_each(rs) ==
    IF rs = <<>> THEN {<<>>}
    ELSE UNION {IF head = Failed THEN {Failed}
                ELSE {IF tail = Failed THEN Failed ELSE head \o tail :
                         tail \in serialize_each(Drop(rs, 2))} :
                head \in serialize(rs[1])}

\* serialize_map, serialize_key and serialize_value for every entry, end
serialize_map(m) ==
    UNION {{IF output = Failed THEN Failed ELSE <<DictionaryOwned(zip_collect(o, output))>> :
               output \in serialize_each([j \in 1..Len(o) |-> m[o[j]]])} : o \in iter_orders(m)}

\* Serialize for BencodedValue: the serializer call of each variant
serialize_value(T, v) ==
    CASE v.t \in BinFamily -> {<<BinaryOwned(v.b)>>}
      [] v.t \in StrFamily -> {<<StringOwned(v.b)>>}
      [] v.t = "Integer" -> {<<v>>}
      [] v.t = "List" ->
            {IF output = Failed THEN Failed ELSE <<List(output)>> :
                output \in serialize_each([j \in 1..Len(v.l) |-> Rec(T, v.l[j])])}
      [] is_dict(v) -> serialize_map([key \in DOMAIN v.m |-> Rec(T, v.m[key])])
      [] v.t = "None" -> {<<>>}

serialize(r) ==
    CASE r.ty.k = "bool" -> {<<Integer(I64(FALSE, IF r.flag THEN <<1>> ELSE <<0>>))>>}
      [] r.ty.k \in SignedKinds \cup (UnsignedKinds \ {"u64"}) -> {<<Integer(r.n)>>}
      [] r.ty.k = "u64" -> {<<Integer(u64_as_i64(r.n.mag))>>}
      [] r.ty.k \in {"char", "string"} -> {<<StringOwned(r.b)>>}
      [] r.ty.k = "option" -> IF r.opt = <<>> THEN {<<>>} ELSE serialize(r.opt[1])
      [] r.ty.k = "value" -> serialize_value(r.ty, r.val)
      [] r.ty.k = "seq" ->
            {IF output = Failed THEN Failed ELSE <<List(output)>> : output \in serialize_each(r.l)}
      [] r.ty.k = "map" -> serialize_map(r.m)
      [] r.ty.k = "struct" ->
            {IF output = Failed THEN Failed
             ELSE <<DictionaryOwned(zip_collect(r.ty.names, output))>> :
                output \in serialize_each(r.l)}
      \* serialize_tuple_struct makes a Compound::Map, and serialize_field and
      \* end of SerializeTupleStruct reach unreachable!() on it
      [] r.ty.k = "tuple_struct" -> {}
      \* serialize_newtype_variant: output.pop().unwrap() of a fresh serializer
      [] r.ty.k = "variant" ->
            {IF output = Failed THEN Failed
             ELSE <<Dictionary(r.ty.name :> output[Len(output)])>> :
                output \in {o \in serialize(r.inner) : o # <<>>}}
      \* serialize_unit, serialize_unit_struct
      [] r.ty.k \in {"unit", "unit_struct"} -> {Failed}
      \* serialize_tuple_variant and serialize_struct_variant make a Compound,
      \* whose serialize_field and end return the error
      [] r.ty.k \in {"tuple_variant", "struct_variant"} -> {Failed}

\* an error taken for an empty output
to_value_lenient(r) ==
    IF serialize(r) = {} THEN {Panic}
    ELSE {IF output = Failed THEN List(<<>>)
          ELSE IF Len(output) = 1 THEN output[1] ELSE List(output) : output \in serialize(r)}

to_value(r) ==
    IF serialize(r) = {} THEN {Panic}
    ELSE {IF output = Failed THEN Err
          ELSE IF Len(output) = 1 THEN output[1] ELSE List(output) : output \in serialize(r)}

(***************************************************************************)
(* src/de.rs, src/de/seq.rs, src/de/map.rs.  deserialize(T, v) is what     *)
(* T::deserialize gets out of a Deserializer on v.                         *)
(***************************************************************************)
Done(r) == [k |-> "Ok", v |-> r]

parse_bool(T, v) ==
    IF v.t = "Integer" /\ v.n = I64(FALSE, <<1>>) THEN Done(Rec(T, TRUE))
    ELSE IF v.t = "Integer" /\ v.n = I64(FALSE, <<0>>) THEN Done(Rec(T, FALSE))
    ELSE Err

\* deserialize_i8 .. deserialize_i64: parse_int()? as _
deserialize_int(T, v) ==
    IF v.t = "Integer" THEN Done(Rec(T, as_(v.n, Bits(T.k), TRUE))) ELSE Err

\* deserialize_u8 .. deserialize_u64: parse_uint()? as _
deserialize_uint(T, v) ==
    IF v.t = "Integer" /\ ~v.n.neg THEN Done(Rec(T, as_(v.n, Bits(T.k), FALSE))) ELSE Err

TWO_31 == <<2, 1, 4, 7, 4, 8, 3, 6, 4, 8>>

\* x as f32 for a natural x below 2^31 between two neighbours q apart: the
\* nearest of the two, the one with the even significand when half way
f32_round(x, q) ==
    IF (x % q) * 2 > q \/ ((x % q) * 2 = q /\ (x \div q) % 2 = 1)
    THEN IF x - (x % q) = 2147483520 THEN TWO_31
         ELSE Magnitude(NatToDec(x - (x % q) + q))
    ELSE Magnitude(NatToDec(x - (x % q)))

\* n as f32 for an i32 n: 24 significant bits are kept
i32_as_f32(n) ==
    IF n.mag = TWO_31 THEN n
    ELSE Only({ I64(n.neg, f32_round(x, Only({q \in {1, 2, 4, 8, 16, 32, 64, 128} :
                    x \div q < 16777216 /\ (q = 1 \/ x \div q >= 8388608)}))) :
                x \in {MagToNat(n.mag)} })

\* a float taken from the i64 itself
deserialize_float_wide(T, v) ==
    IF v.t = "Integer" THEN Done(Rec(T, v.n)) ELSE Err

\* deserialize_f32, deserialize_f64: parse_float()? as _, where parse_float
\* is parse_int()? as i32 as f64; the float is kept as the integer it equals
deserialize_float(T, v) ==
    IF v.t # "Integer" THEN Err
    ELSE IF T.k = "f32" THEN Done(Rec(T, i32_as_f32(as_(v.n, 32, TRUE))))
    ELSE Done(Rec(T, as_(v.n, 32, TRUE)))

\* len() is the length in bytes
parse_char(T, v) ==
    IF v.t \in StrFamily /\ Len(v.b) = 1 THEN Done(Rec(T, v.b)) ELSE Err

de_parse_string(T, v) ==
    IF v.t \in StrFamily THEN Done(Rec(T, v.b)) ELSE Err

\* visit_some(self)
visit_some(T, inner) == IF is_ok(inner) THEN Done(Rec(T, <<inner.v>>)) ELSE inner

\* visit_seq: the elements one after the other, the first error ends it
visit_seq(T, rs) ==
    IF \E j \in DOMAIN rs : ~is_ok(rs[j]) THEN Err
    ELSE Done(Rec(T, [j \in DOMAIN rs |-> rs[j].v]))

\* unwrap_list, or the bytes of a binary as integers
seq_values(v) ==
    IF v.t = "List" THEN v.l
    ELSE [j \in 1..Len(v.b) |-> Integer(I64(FALSE, Magnitude(NatToDec(v.b[j]))))]

\* a field that the dictionary does not hold: None for an option
missing_field(T) == IF T.k = "option" THEN Done(Rec(T, <<>>)) ELSE Err

RECURSIVE deserialize(_, _)

deserialize_seq(T, v) ==
    IF v.t = "List" \/ v.t \in BinFamily
    THEN visit_seq(T, [j \in 1..Len(seq_values(v)) |-> deserialize(T.of, seq_values(v)[j])])
    ELSE Err

deserialize_map(T, v) ==
    IF is_dict(v)
    THEN visit_seq(T, [key \in DOMAIN v.m |-> deserialize(T.of, v.m[key])])
    ELSE Err

deserialize_struct(T, v) ==
    IF v.t = "List" THEN
        IF Len(v.l) < Len(T.names) THEN Err
        ELSE visit_seq(T, [j \in 1..Len(T.names) |-> deserialize(T.types[j], v.l[j])])
    ELSE IF is_dict(v) THEN
        visit_seq(T, [j \in 1..Len(T.names) |->
            IF T.names[j] \in DOMAIN v.m THEN deserialize(T.types[j], v.m[T.names[j]])
            ELSE missing_field(T.types[j])])
    ELSE Err

\* deserialize_seq with the visitor of a tuple struct: a field per element
deserialize_tuple_struct(T, v) ==
    IF v.t = "List" \/ v.t \in BinFamily THEN
        IF Len(seq_values(v)) < Len(T.types) THEN Err
        ELSE visit_seq(T, [j \in 1..Len(T.types) |-> deserialize(T.types[j], seq_values(v)[j])])
    ELSE Err

\* deserialize_any with BencodedValueVisitor.  A binary goes to
\* deserialize_seq and comes back from visit_seq as a List of integers.  The
\* keys of a dictionary are handed out as StringOwned (unwrap_dict gives a
\* HashMap<String, _>), deserialize_str calls visit_string on them, and the
\* visitor of &str takes borrowed text only: the first key is an error.
deserialize_any(T, v) ==
    CASE v.t \in BinFamily \cup {"List"} ->
            Only({ IF \E j \in DOMAIN rs : ~is_ok(rs[j]) THEN Err
                   ELSE Done(Rec(T, List([j \in DOMAIN rs |-> rs[j].v.val]))) :
                   rs \in {[j \in 1..Len(seq_values(v)) |-> deserialize(T, seq_values(v)[j])]} })
      [] v.t \in StrFamily \cup {"Integer", "None"} -> Done(Rec(T, v))
      [] is_dict(v) -> IF DOMAIN v.m = {} THEN Done(Rec(T, Dictionary(<<>>))) ELSE Err

deserialize(T, v) ==
    CASE T.k = "bool" -> parse_bool(T, v)
      [] T.k \in FloatKinds -> deserialize_float(T, v)
      [] T.k = "value" -> deserialize_any(T, v)
      [] T.k \in SignedKinds -> deserialize_int(T, v)
      [] T.k \in UnsignedKinds -> deserialize_uint(T, v)
      [] T.k = "char" -> parse_char(T, v)
      [] T.k = "string" -> de_parse_string(T, v)
      [] T.k = "option" ->
            IF v.t = "None" THEN Done(Rec(T, <<>>)) ELSE visit_some(T, deserialize(T.of, v))
      [] T.k = "seq" -> deserialize_seq(T, v)
      [] T.k = "map" -> deserialize_map(T, v)
      [] T.k = "struct" -> deserialize_struct(T, v)
      [] T.k = "tuple_struct" -> deserialize_tuple_struct(T, v)
      \* deserialize_enum
      [] T.k = "variant" -> Err

from_value(T, v) == deserialize(T, v)

(***************************************************************************)
(* src/de/map.rs: the MapAccess that deserialize_map hands to the visitor, *)
(* and a visitor that pulls keys and values from it in any order.  values  *)
(* is what the iterator over the HashMap still holds, in the order in      *)
(* which it yields it; current_value is no or one value.                   *)
(***************************************************************************)
MaxPulls == 7

\* dictionaries of no to three entries, the value of a key spelling the key
AccessDicts ==
    UNION {{Dictionary([key \in K |-> StringOwned(key)]),
            DictionaryOwned([key \in K |-> StringOwned(key)])} :
           K \in SUBSET {<<97>>, <<98>>, <<195, 169>>}}

\* what a pull returns: Ok(Some(key)), Ok(None), Ok(value); a panic is Panic
SomeKey(key) == [k |-> "Some", key |-> key]
NoKey == [k |-> "None"]
Value(v) == [k |-> "Value", value |-> v]

\* next_key_seed(&mut self, seed): the access afterwards and what is returned
next_key_seed(self) ==
    IF self.len <= self.index THEN [self |-> self, out |-> NoKey]
    ELSE IF self.values = <<>> THEN [self |-> self, out |-> Panic]
    ELSE [self |-> [len |-> self.len,
                    index |-> IF self.current_value # <<>> THEN self.index + 1 ELSE self.index,
                    values |-> Tail(self.values),
                    current_value |-> <<self.values[1][2]>>],
          out |-> SomeKey(self.values[1][1])]

\* an index that is never advanced
next_value_seed_stuck(self) ==
    IF self.len <= self.index THEN [self |-> self, out |-> Panic]
    ELSE IF self.current_value = <<>> THEN [self |-> self, out |-> Panic]
    ELSE [self |-> [self EXCEPT !.current_value = <<>>],
          out |-> Value(self.current_value[1])]

\* next_value_seed(&mut self, seed)
next_value_seed(self) ==
    IF self.len <= self.index THEN [self |-> self, out |-> Panic]
    ELSE IF self.current_value = <<>> THEN [self |-> self, out |-> Panic]
    ELSE [self |-> [self EXCEPT !.index = @ + 1, !.current_value = <<>>],
          out |-> Value(self.current_value[1])]

\* deserialize_map: visitor.visit_map(MapAccess::new(unwrap_dict()))
OpenMap(v, o) ==
    /\ pc = "feed"
    /\ access = Unset
    /\ encoded' = v
    /\ access' = [len |-> Cardinality(DOMAIN v.m), index |-> 0,
                  values |-> [j \in 1..Len(o) |-> <<o[j], v.m[o[j]]>>],
                  current_value |-> <<>>]
    /\ UNCHANGED <<overflow_checks, pc, toks, input, parsed, all, partial, number, data, bytes, wrote, again, entries, dict, record, back, left, right, same, mirrored, target, pulls>>

\* the visitor calls next_key_seed
PullKey ==
    /\ pc = "feed"
    /\ access # Unset
    /\ Len(pulls) < MaxPulls
    /\ access' = next_key_seed(access).self
    /\ pulls' = Append(pulls, [call |-> "key", out |-> next_key_seed(access).out])
    /\ pc' = IF next_key_seed(access).out = Panic THEN "panic" ELSE pc
    /\ UNCHANGED <<overflow_checks, toks, input, parsed, all, partial, number, data, bytes, wrote, again, entries, dict, record, encoded, back, left, right, same, mirrored, target>>

\* the visitor calls next_value_seed
PullValue ==
    /\ pc = "feed"
    /\ access # Unset
    /\ Len(pulls) < MaxPulls
    /\ access' = next_value_seed(access).self
    /\ pulls' = Append(pulls, [call |-> "value", out |-> next_value_seed(access).out])
    /\ pc' = IF next_value_seed(access).out = Panic THEN "panic" ELSE pc
    /\ UNCHANGED <<overflow_checks, toks, input, parsed, all, partial, number, data, bytes, wrote, again, entries, dict, record, encoded, back, left, right, same, mirrored, target>>

NextAccess ==
    \/ \E v \in AccessDicts : \E o \in iter_orders(v.m) : OpenMap(v, o)
    \/ PullKey
    \/ PullValue

SpecAccess == Init /\ [][NextAccess]_vars

(***************************************************************************)
(* src/de/seq.rs: the SeqAccess that deserialize_seq hands to the visitor, *)
(* and a visitor that pulls elements from it, each into a type it chooses. *)
(* A pull returns what the seed made of the element, Done for Ok(Some(_)), *)
(* or NoKey for Ok(None).                                                  *)
(***************************************************************************)
SeqSources ==
    { List(<<>>), List(<<String(<<97>>)>>), List(<<String(<<97>>), Integer(I64(FALSE, <<4>>))>>),
      List(<<Integer(I64(TRUE, <<4>>)), String(<<195, 169>>), String(<<97>>)>>),
      Binary(<<255, 0>>), BinaryOwned(<<97, 255, 0>>), BinaryOwned(<<>>),
      Integer(I64(FALSE, <<4>>)), String(<<97>>), Dictionary(<<>>), None }

SeedTypes == {Ty("value"), Ty("u8")}

\* values.remove(values.len() - 1) in place of values.remove(0)
next_element_seed_last(self, T) ==
    IF self.len <= self.index THEN [self |-> self, out |-> NoKey]
    ELSE IF self.values = <<>> THEN [self |-> self, out |-> Panic]
    ELSE [self |-> [self EXCEPT !.index = @ + 1, !.values = Take(@, Len(@) - 1)],
          out |-> deserialize(T, self.values[Len(self.values)])]

\* next_element_seed(&mut self, seed), the seed being a T
next_element_seed(self, T) ==
    IF self.len <= self.index THEN [self |-> self, out |-> NoKey]
    ELSE IF self.values = <<>> THEN [self |-> self, out |-> Panic]
    ELSE [self |-> [self EXCEPT !.index = @ + 1, !.values = Tail(@)],
          out |-> deserialize(T, self.values[1])]

\* deserialize_seq: visitor.visit_seq(SeqAccess::new(..)) on a list or a
\* binary, an error on every other value
OpenSeq(v) ==
    /\ pc = "feed"
    /\ access = Unset
    /\ encoded' = v
    /\ IF v.t = "List" \/ v.t \in BinFamily
       THEN /\ access' = [len |-> Len(seq_values(v)), index |-> 0, values |-> seq_values(v)]
            /\ UNCHANGED pc
       ELSE /\ pc' = "error"
            /\ UNCHANGED access
    /\ UNCHANGED <<overflow_checks, toks, input, parsed, all, partial, number, data, bytes, wrote, again, entries, dict, record, back, left, right, same, mirrored, target, pulls>>

\* the visitor calls next_element_seed
PullElement(T) ==
    /\ pc = "feed"
    /\ access # Unset
    /\ Len(pulls) < MaxPulls
    /\ access' = next_element_seed(access, T).self
    /\ pulls' = Append(pulls, [call |-> "element", ty |-> T, out |-> next_element_seed(access, T).out])
    /\ pc' = IF next_element_seed(access, T).out = Panic THEN "panic" ELSE pc
    /\ UNCHANGED <<overflow_checks, toks, input, parsed, all, partial, number, data, bytes, wrote, again, entries, dict, record, encoded, back, left, right, same, mirrored, target>>

NextSeq ==
    \/ \E v \in SeqSources : OpenSeq(v)
    \/ \E T \in SeedTypes : PullElement(T)

SpecSeq == Init /\ [][NextSeq]_vars

(***************************************************************************)
(* from_value asked for an integer type or for char on a value the caller  *)
(* holds: the integers around the ends of the ranges of the eight integer  *)
(* types, and strings of no, one and two characters.                       *)
(***************************************************************************)
ExtractTargets ==
    {Ty(k) : k \in SignedKinds \cup UnsignedKinds \cup FloatKinds \cup {"char", "value"}}

\* "", "a", "é", "ab", "éa" and "€"
ExtractTexts == {<<>>, <<97>>, <<195, 169>>, <<97, 98>>, <<195, 169, 97>>, <<226, 130, 172>>}

ExtractSources ==
    {Integer(I64(neg, mag)) : neg \in BOOLEAN,
        mag \in {<<0>>, <<1>>, <<1, 2, 7>>, <<1, 2, 8>>, <<1, 2, 9>>, <<2, 5, 5>>, <<2, 5, 6>>,
                 <<3, 2, 7, 6, 7>>, <<3, 2, 7, 6, 8>>, <<3, 2, 7, 6, 9>>, <<6, 5, 5, 3, 5>>,
                 <<6, 5, 5, 3, 6>>, <<1, 6, 7, 7, 7, 2, 1, 6>>, <<1, 6, 7, 7, 7, 2, 1, 7>>,
                 <<1, 6, 7, 7, 7, 2, 1, 9>>, <<2, 1, 4, 7, 4, 8, 3, 5, 8, 3>>, <<2, 1, 4, 7, 4, 8, 3, 6, 4, 7>>,
                 <<2, 1, 4, 7, 4, 8, 3, 6, 4, 8>>, <<2, 1, 4, 7, 4, 8, 3, 6, 4, 9>>, U32_MAX,
                 <<4, 2, 9, 4, 9, 6, 7, 2, 9, 6>>, I64_MAX}}
    \cup {Integer(I64_MIN)}
    \cup {String(b) : b \in ExtractTexts} \cup {StringOwned(b) : b \in ExtractTexts}
    \cup {Binary(<<97>>), BinaryOwned(<<97>>), List(<<>>), None}
    \cup {Binary(<<>>), Binary(<<255, 0>>), Dictionary(<<>>),
          Dictionary(<<97>> :> Integer(I64(FALSE, <<4>>))),
          Dictionary((<<97>> :> String(<<97>>)) @@ (<<98>> :> List(<<>>))),
          List(<<String(<<97>>), Integer(I64(TRUE, <<4>>))>>),
          List(<<List(<<String(<<195, 169>>)>>)>>), List(<<Binary(<<255>>)>>),
          List(<<Dictionary(<<>>)>>), List(<<Dictionary(<<98>> :> String(<<>>))>>)}

\* from_value::<target>(v)
Extract(T, v) ==
    /\ pc = "feed"
    /\ target' = T
    /\ encoded' = v
    /\ back' = from_value(T, v)
    /\ pc' = "extracted"
    /\ UNCHANGED <<overflow_checks, toks, input, parsed, all, partial, number, data, bytes, wrote, again, entries, dict, record, left, right, same, mirrored, access, pulls>>

NextExtract == \E T \in ExtractTargets, v \in ExtractSources : Extract(T, v)

SpecExtract == Init /\ [][NextExtract]_vars

(***************************************************************************)
(* The records handed to the bridge, built from the inside out like the    *)
(* values above.                                                           *)
(***************************************************************************)
IntRec(k, neg, mag) == Rec(Ty(k), I64(neg, mag))

ScalarRecords ==
    { Rec(Ty("bool"), TRUE), Rec(Ty("bool"), FALSE),
      IntRec("i8", TRUE, <<1, 2, 8>>), IntRec("i16", FALSE, <<3, 0, 0>>),
      IntRec("i32", TRUE, <<2, 1, 4, 7, 4, 8, 3, 6, 4, 8>>), IntRec("i64", TRUE, I64_MIN_MAG),
      IntRec("u8", FALSE, <<2, 5, 5>>), IntRec("u16", FALSE, <<6, 5, 5, 3, 5>>),
      IntRec("u32", FALSE, U32_MAX), IntRec("u64", FALSE, I64_MAX), IntRec("u64", FALSE, U64_MAX),
      Rec(Ty("char"), <<97>>), Rec(Ty("char"), <<195, 169>>),
      Rec(Ty("string"), <<>>), Rec(Ty("string"), <<195, 169>>) }

\* None::<i64>, None::<String>, an empty Vec<i64> and an empty map of strings
LeafRecords ==
    ScalarRecords \cup
    { Rec(OptionOf(Ty("i64")), <<>>), Rec(OptionOf(Ty("string")), <<>>),
      Rec(VecOf(Ty("i64")), <<>>), Rec(MapOf(Ty("string")), <<>>) }

FieldNames == {<<97>>, <<98>>}

\* how many types deep a type is
RECURSIVE TypeDepth(_)
TypeDepth(T) ==
    IF T.k \in {"option", "seq", "map", "variant"} THEN 1 + TypeDepth(T.of)
    ELSE IF T.k \in {"struct", "tuple_struct", "tuple_variant", "struct_variant"} THEN 1 + NatMax({TypeDepth(T.types[j]) : j \in 1..Len(T.types)})
    ELSE 0

\* (), struct U;, E::V() and E::V {}
UnitRecords ==
    { Rec(Ty("unit"), <<>>), Rec(Ty("unit_struct"), <<>>),
      Rec(TupleVariantOf(<<>>), <<>>), Rec(StructVariantOf(<<>>, <<>>), <<>>) }

\* the caller starts from a leaf
LeafRecord(r) ==
    /\ pc = "feed"
    /\ record = Unset
    /\ record' = r
    /\ UNCHANGED <<overflow_checks, pc, toks, input, parsed, all, partial, number, data, bytes, wrote, again, entries, dict, encoded, back, left, right, same, mirrored, target, access, pulls>>

\* Some(record)
WrapSome ==
    /\ pc = "feed"
    /\ record # Unset
    /\ TypeDepth(record.ty) < MaxDepth
    /\ record' = Rec(OptionOf(record.ty), <<record>>)
    /\ UNCHANGED <<overflow_checks, pc, toks, input, parsed, all, partial, number, data, bytes, wrote, again, entries, dict, encoded, back, left, right, same, mirrored, target, access, pulls>>

\* vec![record]
WrapVec ==
    /\ pc = "feed"
    /\ record # Unset
    /\ TypeDepth(record.ty) < MaxDepth
    /\ record' = Rec(VecOf(record.ty), <<record>>)
    /\ UNCHANGED <<overflow_checks, pc, toks, input, parsed, all, partial, number, data, bytes, wrote, again, entries, dict, encoded, back, left, right, same, mirrored, target, access, pulls>>

\* one more element of the type of the others
PushVec(r) ==
    /\ pc = "feed"
    /\ record # Unset
    /\ record.ty.k = "seq"
    /\ Len(record.l) \in 1..(MaxLen - 1)
    /\ r.ty = record.ty.of
    /\ record' = Rec(record.ty, Append(record.l, r))
    /\ UNCHANGED <<overflow_checks, pc, toks, input, parsed, all, partial, number, data, bytes, wrote, again, entries, dict, encoded, back, left, right, same, mirrored, target, access, pulls>>

\* a map that holds the record under a key
WrapMap(key) ==
    /\ pc = "feed"
    /\ record # Unset
    /\ TypeDepth(record.ty) < MaxDepth
    /\ record' = Rec(MapOf(record.ty), (key :> record))
    /\ UNCHANGED <<overflow_checks, pc, toks, input, parsed, all, partial, number, data, bytes, wrote, again, entries, dict, encoded, back, left, right, same, mirrored, target, access, pulls>>

\* one more entry of the type of the others
InsertMap(key, r) ==
    /\ pc = "feed"
    /\ record # Unset
    /\ record.ty.k = "map"
    /\ Cardinality(DOMAIN record.m) \in 1..(MaxLen - 1)
    /\ key \notin DOMAIN record.m
    /\ r.ty = record.ty.of
    /\ record' = Rec(record.ty, (key :> r) @@ record.m)
    /\ UNCHANGED <<overflow_checks, pc, toks, input, parsed, all, partial, number, data, bytes, wrote, again, entries, dict, encoded, back, left, right, same, mirrored, target, access, pulls>>

\* a struct with the record as its only field
WrapStruct(name) ==
    /\ pc = "feed"
    /\ record # Unset
    /\ TypeDepth(record.ty) < MaxDepth
    /\ record' = Rec(StructOf(<<name>>, <<record.ty>>), <<record>>)
    /\ UNCHANGED <<overflow_checks, pc, toks, input, parsed, all, partial, number, data, bytes, wrote, again, entries, dict, encoded, back, left, right, same, mirrored, target, access, pulls>>

\* one more field, after the others
AddField(name, r) ==
    /\ pc = "feed"
    /\ record # Unset
    /\ record.ty.k = "struct"
    /\ Len(record.l) \in 1..(MaxLen - 1)
    /\ \A j \in 1..Len(record.ty.names) : record.ty.names[j] # name
    /\ TypeDepth(r.ty) < MaxDepth
    /\ record' = Rec(StructOf(Append(record.ty.names, name), Append(record.ty.types, r.ty)),
                      Append(record.l, r))
    /\ UNCHANGED <<overflow_checks, pc, toks, input, parsed, all, partial, number, data, bytes, wrote, again, entries, dict, encoded, back, left, right, same, mirrored, target, access, pulls>>

\* W(record, record)
WrapTupleStruct ==
    /\ pc = "feed"
    /\ record # Unset
    /\ TypeDepth(record.ty) < MaxDepth
    /\ record' = Rec(TupleStructOf(<<record.ty, record.ty>>), <<record, record>>)
    /\ UNCHANGED <<overflow_checks, pc, toks, input, parsed, all, partial, number, data, bytes, wrote, again, entries, dict, encoded, back, left, right, same, mirrored, target, access, pulls>>

\* E::name(record)
WrapVariant(name) ==
    /\ pc = "feed"
    /\ record # Unset
    /\ TypeDepth(record.ty) < MaxDepth
    /\ record' = Rec(VariantOf(name, record.ty), record)
    /\ UNCHANGED <<overflow_checks, pc, toks, input, parsed, all, partial, number, data, bytes, wrote, again, entries, dict, encoded, back, left, right, same, mirrored, target, access, pulls>>

\* E::V(record, record)
WrapTupleVariant ==
    /\ pc = "feed"
    /\ record # Unset
    /\ TypeDepth(record.ty) < MaxDepth
    /\ record' = Rec(TupleVariantOf(<<record.ty, record.ty>>), <<record, record>>)
    /\ UNCHANGED <<overflow_checks, pc, toks, input, parsed, all, partial, number, data, bytes, wrote, again, entries, dict, encoded, back, left, right, same, mirrored, target, access, pulls>>

\* E::V { name: record }
WrapStructVariant(name) ==
    /\ pc = "feed"
    /\ record # Unset
    /\ TypeDepth(record.ty) < MaxDepth
    /\ record' = Rec(StructVariantOf(<<name>>, <<record.ty>>), <<record>>)
    /\ UNCHANGED <<overflow_checks, pc, toks, input, parsed, all, partial, number, data, bytes, wrote, again, entries, dict, encoded, back, left, right, same, mirrored, target, access, pulls>>

\* to_value(&record); a panic ends the run, and so does an error
ToValue ==
    /\ pc = "feed"
    /\ record # Unset
    /\ \E v \in to_value(record) :
          /\ encoded' = v
          /\ pc' = IF v = Panic THEN "panic" ELSE IF v = Err THEN "error" ELSE "value"
    /\ UNCHANGED <<overflow_checks, toks, input, parsed, all, partial, number, data, bytes, wrote, again, entries, dict, record, back, left, right, same, mirrored, target, access, pulls>>

\* from_value(encoded) for the type of the record
FromValue ==
    /\ pc = "value"
    /\ back' = from_value(record.ty, encoded)
    /\ pc' = "back"
    /\ UNCHANGED <<overflow_checks, toks, input, parsed, all, partial, number, data, bytes, wrote, again, entries, dict, record, encoded, left, right, same, mirrored, target, access, pulls>>

NextTyped ==
    \/ \E r \in LeafRecords \cup UnitRecords : LeafRecord(r)
    \/ WrapSome
    \/ WrapVec
    \/ \E r \in LeafRecords : PushVec(r)
    \/ \E key \in FieldNames : WrapMap(key)
    \/ \E key \in FieldNames, r \in LeafRecords : InsertMap(key, r)
    \/ \E name \in FieldNames : WrapStruct(name)
    \/ \E name \in FieldNames, r \in LeafRecords : AddField(name, r)
    \/ WrapTupleStruct
    \/ \E name \in FieldNames : WrapVariant(name)
    \/ WrapTupleVariant
    \/ \E name \in FieldNames : WrapStructVariant(name)
    \/ ToValue
    \/ FromValue

SpecTyped == Init /\ [][NextTyped]_vars

(***************************************************************************)
(* Claims                                                                  *)
(***************************************************************************)

\* C1: whenever parse returned a value, write of that value succeeds, and parse
\* of the written bytes succeeds with an empty remainder and a value equal to
\* the first one (first value on the left of ==).
C1_RoundTrip ==
    /\ (pc \in {"written", "again"} => wrote)
    /\ (pc = "again" => is_ok(again) /\ again.rest = <<>> /\ eq(data, again.v))

\* a dictionary of two entries went through parse, write and parse
C1_Witness ==
    /\ pc = "again"
    /\ data.t = "Dictionary"
    /\ Cardinality(DOMAIN data.m) = 2
    /\ is_ok(again)

(***************************************************************************)
(* What the claims speak of: complete values and the grouping rule         *)
(***************************************************************************)
\* x is the encoding of exactly one value
complete(x, checks) ==
    LET r == parse(x, checks) IN is_ok(r) /\ r.rest = <<>>

\* the ways to cut i into complete values: the sequences of the values cut
RECURSIVE Splits(_, _)
Splits(i, checks) ==
    IF i = <<>> THEN {<<>>}
    ELSE UNION {{<<parse(Take(i, c), checks).v>> \o t : t \in Splits(Drop(i, c + 1), checks)} :
                    c \in {c \in 1..Len(i) : complete(Take(i, c), checks)}}

\* the complete values i starts with, one after the other, and what follows them
RECURSIVE Leading(_, _, _)
Leading(i, checks, vs) ==
    LET cuts == {c \in 1..Len(i) : complete(Take(i, c), checks)} IN
    IF cuts = {} THEN [values |-> vs, rest |-> i]
    ELSE LET c == SeqMin(cuts)
         IN  Leading(Drop(i, c + 1), checks, Append(vs, parse(Take(i, c), checks).v))

\* None for no value, the bare value for one, a List for two or more
Group(vs) ==
    IF Len(vs) = 0 THEN None ELSE IF Len(vs) = 1 THEN vs[1] ELSE List(vs)

\* C4: parse_all succeeds exactly when the whole input is a concatenation of
\* k complete values, and then returns an empty remainder and None for k = 0,
\* the bare value for k = 1, the List of the k values in input order for k >= 2;
\* with trailing bytes that form no value it fails.
C4_Grouping ==
    pc = "all" =>
        LET cuts == Splits(input, overflow_checks) IN
        /\ is_ok(all) <=> cuts # {}
        /\ is_ok(all) => all.rest = <<>> /\ \A vs \in cuts : all.v = Group(vs)

\* three values in a row came back as a List of three
C4_Witness ==
    /\ pc = "all"
    /\ is_ok(all)
    /\ all.v.t = "List"
    /\ Len(all.v.l) = 3
    /\ \E vs \in Splits(input, overflow_checks) : Len(vs) = 3

\* C5: parse_all_incomplete never fails: it returns the grouping of the values
\* decoded before the first byte it cannot parse and the remainder that starts
\* at that byte, whether what follows is malformed or truncated.
C5_NeverFails ==
    pc = "partial" =>
        LET lead == Leading(input, overflow_checks, <<>>) IN
        /\ is_ok(partial)
        /\ partial.v = Group(lead.values)
        /\ partial.rest = lead.rest

(***************************************************************************)
(* The integer grammar of the claims: i, an optional -, digits, e          *)
(***************************************************************************)
HasSign(i) == Len(i) >= 2 /\ i[2] = B_minus
DigitsAt(i) == IF HasSign(i) THEN 3 ELSE 2
\* the digits after the i and the sign
DigitRun(i) == Take(Drop(i, DigitsAt(i)), RunLen(Drop(i, DigitsAt(i)), Digits))
\* position of the byte after the digits
AfterDigits(i) == DigitsAt(i) + Len(DigitRun(i))

IntShape(i, maxdigits) ==
    /\ Len(i) >= 1 /\ i[1] = B_i
    /\ Len(DigitRun(i)) \in 1..maxdigits
    /\ Len(i) >= AfterDigits(i) /\ i[AfterDigits(i)] = B_e

\* the integer the sign and the digits denote; -0 is 0
Denoted(i) == I64(HasSign(i), Magnitude(DigitRun(i)))

FitsI64(i) ==
    MagLeq(Magnitude(DigitRun(i)), IF HasSign(i) THEN I64_MIN_MAG ELSE I64_MAX)

\* C7 as claimed: parse_int succeeds on exactly the inputs i, optional -, 1 to
\* 20 digits, e, and returns the integer denoted and the bytes after the e.
C7_AsClaimed ==
    pc = "int" =>
        /\ is_ok(number) <=> IntShape(input, 20)
        /\ is_ok(number) =>
               number.v = Denoted(input) /\ number.rest = Drop(input, AfterDigits(input) + 1)

\* C7 amended: parse_int succeeds on exactly the inputs i, optional -, at least
\* one digit, e, in which sign and digits together are at most 20 bytes and
\* denote a number in the range of i64; it returns that number (-0 gives 0) and
\* the bytes after the e, and an error otherwise.
C7_IntegerGrammar ==
    pc = "int" =>
        /\ is_ok(number) <=>
               /\ IntShape(input, 20)
               /\ AfterDigits(input) - 2 <= 20
               /\ FitsI64(input)
        /\ is_ok(number) =>
               number.v = Denoted(input) /\ number.rest = Drop(input, AfterDigits(input) + 1)
        /\ ~is_ok(number) => is_error(number)

\* i-0e was parsed and gave zero
C7_Witness ==
    /\ pc = "int"
    /\ input = <<B_i, B_minus, B_zero, B_e>>
    /\ is_ok(number)
    /\ number.v = I64(FALSE, <<0>>)

(***************************************************************************)
(* Length-prefixed strings as the claims speak of them                     *)
(***************************************************************************)
\* the leading digits of s
LengthDigits(s) == Take(s, RunLen(s, Digits))

\* the bytes of s after the digits and the colon
Payload(s) == Drop(s, Len(LengthDigits(s)) + 2)

\* the digits ds declare more than n bytes
DeclaresMoreThan(ds, n) == MagLess(Magnitude(NatToDec(n)), Magnitude(ds))

\* s is a length of 1 to maxdigits digits, then nothing or a colon and fewer
\* bytes than the length declares
Truncated(s, maxdigits) ==
    /\ Len(LengthDigits(s)) \in 1..maxdigits
    /\ \/ Len(s) = Len(LengthDigits(s))
       \/ s[Len(LengthDigits(s)) + 1] = B_colon
    /\ DeclaresMoreThan(LengthDigits(s), Len(Payload(s)))

\* what may stand before a string: nothing (top level), the opening of a list
\* (element), the opening of a dictionary (key), or that and a key (value)
Contexts == {<<>>, <<B_l>>, <<B_d>>, <<B_d>> \o T_a}

\* the input is a context followed by a truncated string
TruncatedInContext ==
    \E ctx \in Contexts :
        /\ Len(input) >= Len(ctx)
        /\ Take(input, Len(ctx)) = ctx
        /\ Truncated(Drop(input, Len(ctx) + 1), 20)

\* C6: an input whose length prefix of 1 to 20 digits declares more payload
\* bytes than remain after it, at top level or as list element, dictionary key
\* or dictionary value, makes parse fail with Incomplete, never with an Error.
C6_Incomplete ==
    pc = "parsed" /\ TruncatedInContext => parsed.k = "Incomplete"

\* s is a length, a colon and at least as many bytes as the length declares
StringShape(s, maxdigits) ==
    /\ Len(LengthDigits(s)) \in 1..maxdigits
    /\ Len(s) > Len(LengthDigits(s))
    /\ s[Len(LengthDigits(s)) + 1] = B_colon
    /\ ~DeclaresMoreThan(LengthDigits(s), Len(Payload(s)))

\* the declared bytes of s, as String when they are UTF-8 and as Binary
\* otherwise, and everything after them
StringResult(s) ==
    LET n == MagToNat(Magnitude(LengthDigits(s)))
        body == Take(Payload(s), n)
    IN  Ok(Drop(Payload(s), n + 1), IF from_utf8(body) THEN String(body) ELSE Binary(body))

EntryKeys(es) == {es[j][1] : j \in 1..Len(es)}

\* the bytes of the value the key occurs with last
LastValue(es, key) == es[SeqMax({j \in 1..Len(es) : es[j][1] = key})][2]

\* the orders the entries can be written in
EntryOrders(es) ==
    {[j \in 1..Len(es) |-> es[o[j]]] :
        o \in {o \in [1..Len(es) -> 1..Len(es)] : \A a, b \in 1..Len(es) : a # b => o[a] # o[b]}}

\* C9: on d (key value)* e with UTF-8 keys parse_dictionary returns a mapping
\* with one entry per distinct key that holds the value of the key's last
\* occurrence, and that is the same for every order of entries with distinct
\* keys; a key that is not valid UTF-8 makes the parse fail.
C9_Dictionary ==
    pc = "dict" =>
        /\ is_ok(dict) <=> \A key \in EntryKeys(entries) : from_utf8(key)
        /\ is_ok(dict) =>
               /\ dict.rest = <<>>
               /\ DOMAIN dict.v = EntryKeys(entries)
               /\ \A key \in EntryKeys(entries) :
                      dict.v[key] = parse(LastValue(entries, key), overflow_checks).v
               /\ Cardinality(EntryKeys(entries)) = Len(entries) =>
                      \A es \in EntryOrders(entries) :
                          parse_dictionary(<<B_d>> \o Flatten(es) \o <<B_e>>, overflow_checks) = dict

\* a key given twice with different values and another key after it
C9_Witness ==
    /\ pc = "dict"
    /\ is_ok(dict)
    /\ Len(entries) = 3
    /\ entries[1][1] = entries[2][1]
    /\ entries[1][2] # entries[2][2]
    /\ Cardinality(DOMAIN dict.v) = 2

(***************************************************************************)
(* Owned values and the written form as the claims speak of them           *)
(***************************************************************************)
\* v is built only from BinaryOwned, StringOwned, Integer, List and
\* DictionaryOwned
RECURSIVE OwnedOnly(_)
OwnedOnly(v) ==
    CASE v.t \in {"BinaryOwned", "StringOwned", "Integer"} -> TRUE
      [] v.t = "List" -> \A j \in 1..Len(v.l) : OwnedOnly(v.l[j])
      [] v.t = "DictionaryOwned" -> \A k \in DOMAIN v.m : OwnedOnly(v.m[k])
      [] OTHER -> FALSE

\* C2: for every value built only from BinaryOwned, StringOwned, Integer, List
\* and DictionaryOwned, write succeeds, parse of the written bytes succeeds,
\* and the parsed value == the value written (parsed value on the left).
C2_OwnedRoundTrip ==
    OwnedOnly(data) =>
        /\ (pc \in {"written", "again"} => wrote)
        /\ (pc = "again" => is_ok(again) /\ eq(again.v, data))

\* an owned dictionary of two entries, one of them a dictionary itself, went
\* through write and parse
C2_Witness ==
    /\ pc = "again"
    /\ OwnedOnly(data)
    /\ data.t = "DictionaryOwned"
    /\ Cardinality(DOMAIN data.m) = 2
    /\ \E k \in DOMAIN data.m : data.m[k].t = "DictionaryOwned"
    /\ is_ok(again)

\* a decimal numeral as format! prints it: no leading zero but for 0 itself
Canonical(ds) == Len(ds) >= 1 /\ (Len(ds) = 1 \/ ds[1] # B_zero)

\* what is left of bs after the decimal length of b, a colon and b
MatchString(bs, b) ==
    LET ds == LengthDigits(bs) IN
    IF /\ Canonical(ds) /\ Len(ds) <= 9
       /\ MagToNat(Magnitude(ds)) = Len(b)
       /\ Len(bs) >= Len(ds) + 1 + Len(b)
       /\ bs[Len(ds) + 1] = B_colon
       /\ SubSeq(bs, Len(ds) + 2, Len(ds) + 1 + Len(b)) = b
    THEN {Drop(bs, Len(ds) + 2 + Len(b))} ELSE {}

\* what is left of bs after i, the decimal of n with a - only when n is
\* negative, and e
MatchInteger(bs, n) ==
    LET from == IF n.neg THEN 3 ELSE 2
        ds == LengthDigits(Drop(bs, from))
    IN  IF /\ Len(bs) >= from + Len(ds)
           /\ bs[1] = B_i
           /\ (n.neg => bs[2] = B_minus)
           /\ Canonical(ds) /\ Magnitude(ds) = n.mag
           /\ bs[from + Len(ds)] = B_e
        THEN {Drop(bs, from + Len(ds) + 1)} ELSE {}

RECURSIVE Match(_, _)
RECURSIVE MatchEach(_, _)
RECURSIVE MatchEntries(_, _, _)

\* what is left of bs after the encodings of the elements in order
MatchEach(bs, l) ==
    IF l = <<>> THEN {bs}
    ELSE UNION {MatchEach(r, Drop(l, 2)) : r \in Match(bs, l[1])}

\* what is left of bs after the entries of the keys, in some order, each key
\* as a length-prefixed string immediately followed by its own value
MatchEntries(bs, m, keys) ==
    IF keys = {} THEN {bs}
    ELSE UNION {UNION {UNION {MatchEntries(r2, m, keys \ {k}) : r2 \in Match(r1, m[k])} :
                           r1 \in MatchString(bs, k)} : k \in keys}

\* what is left after the closing e, for bs that starts with the opening
\* byte and has one of rs left after the body
Framed(bs, open, rs) ==
    IF Len(bs) >= 1 /\ bs[1] = open
    THEN {Drop(r, 2) : r \in {r \in rs : Len(r) >= 1 /\ r[1] = B_e}}
    ELSE {}

\* what is left of bs after an encoding of v, in every way bs starts with one
Match(bs, v) ==
    CASE v.t \in BinFamily \cup StrFamily -> MatchString(bs, v.b)
      [] v.t = "Integer" -> MatchInteger(bs, v.n)
      [] v.t = "List" -> Framed(bs, B_l, MatchEach(Drop(bs, 2), v.l))
      [] is_dict(v) -> Framed(bs, B_d, MatchEntries(Drop(bs, 2), v.m, DOMAIN v.m))
      [] v.t = "None" -> {bs}

\* C10: what write emits is, for a string or binary the decimal byte length,
\* a colon and the raw bytes; for an Integer i, the decimal with a - only when
\* negative, and e; for a List l, the elements in order, and e; for a
\* dictionary d, each key as length-prefixed string followed by its own
\* value, and e; for None nothing; and nothing else.
C10_WriterFormat ==
    pc = "written" => wrote /\ <<>> \in Match(bytes, data)

\* a list that holds a dictionary with a key of two bytes and None was written
C10_Witness ==
    /\ pc = "written"
    /\ data.t = "List"
    /\ Len(data.l) = 2
    /\ is_dict(data.l[1])
    /\ <<195, 169>> \in DOMAIN data.l[1].m
    /\ data.l[2] = None

\* the types of C3: no tuple struct and no enum variant in them
RECURSIVE BothBridges(_)
BothBridges(T) ==
    CASE T.k \in {"option", "seq", "map"} -> BothBridges(T.of)
      [] T.k = "struct" -> \A j \in 1..Len(T.types) : BothBridges(T.types[j])
      [] T.k \in {"tuple_struct", "variant"} -> FALSE
      [] OTHER -> TRUE

\* C3: for every record r of a type supported by both bridges (booleans,
\* integers of every width, characters, strings, options, sequences, maps
\* with string keys and structs of these), from_value(to_value(r)) is Ok(r).
C3_TypedRoundTrip ==
    pc = "back" /\ BothBridges(record.ty) => back = Done(record)

\* C11: what write puts in the sink depends on the content of the value only:
\* every run of write on a value with the content of data, a dictionary of two
\* or more keys included, gives the bytes this run gave.
C11_Deterministic ==
    pc = "written" => \A out \in write(data) : out = bytes

\* C12: two values of the string family (Binary, BinaryOwned, String,
\* StringOwned) are equal exactly when their bytes are the same, whichever of
\* the 16 pairs of variants they are and whichever is on the left.
C12_StringFamily ==
    pc = "compared" /\ left.t \in BinFamily \cup StrFamily /\ right.t \in BinFamily \cup StrFamily
        => (same <=> left.b = right.b) /\ (mirrored <=> left.b = right.b)

\* the two dictionaries hold the same keys and an equal value for every key
SameEntries(dict1, dict2) ==
    /\ DOMAIN dict1 = DOMAIN dict2
    /\ \A key \in DOMAIN dict1 : eq(dict1[key], dict2[key])

\* C13: a Dictionary and a DictionaryOwned are equal, with either of them on
\* the left, exactly when they hold the same keys and an equal value for
\* every key; a strict subset of the entries of the other is not equal to it.
C13_DictFamily ==
    pc = "compared" /\ left.t = "Dictionary" /\ right.t = "DictionaryOwned"
        => (same <=> SameEntries(left.m, right.m)) /\ (mirrored <=> SameEntries(left.m, right.m))

\* C14: to_value of an absent option is the None value, and to_value of a
\* present option is what to_value gives for the value inside.
C14_Option ==
    pc = "value" /\ record.ty.k = "option"
        => IF record.opt = <<>> THEN encoded = None ELSE encoded \in to_value(record.opt[1])

\* C15: to_value of a sequence or a tuple struct of n elements returns a List
\* that holds the encodings of the n elements, in their order.
C15_Sequence ==
    pc \in {"value", "panic"} /\ record.ty.k \in {"seq", "tuple_struct"}
        => /\ pc = "value"
           /\ encoded.t = "List"
           /\ Len(encoded.l) = Len(record.l)
           /\ \A j \in 1..Len(record.l) : encoded.l[j] \in to_value(record.l[j])

\* v holds only BinaryOwned, StringOwned, DictionaryOwned, Integer, List and
\* None, at every depth
RECURSIVE OwnedTree(_)
OwnedTree(v) ==
    CASE v.t \in {"BinaryOwned", "StringOwned", "Integer", "None"} -> TRUE
      [] v.t = "List" -> \A j \in 1..Len(v.l) : OwnedTree(v.l[j])
      [] v.t = "DictionaryOwned" -> \A k \in DOMAIN v.m : OwnedTree(v.m[k])
      [] OTHER -> FALSE

\* C16: a value that to_value returns holds no Binary, no String and no
\* Dictionary with borrowed keys at any depth, whatever the record, a newtype
\* variant included.
C16_Owned ==
    pc = "value" => OwnedTree(encoded)

\* the largest number of an integer type and the magnitude of its smallest
RangeMax(k) ==
    CASE k = "i8" -> <<1, 2, 7>>
      [] k = "i16" -> <<3, 2, 7, 6, 7>>
      [] k = "i32" -> <<2, 1, 4, 7, 4, 8, 3, 6, 4, 7>>
      [] k = "i64" -> I64_MAX
      [] k = "u8" -> <<2, 5, 5>>
      [] k = "u16" -> <<6, 5, 5, 3, 5>>
      [] k = "u32" -> U32_MAX
      [] k = "u64" -> U64_MAX

RangeMinMag(k) ==
    CASE k = "i8" -> <<1, 2, 8>>
      [] k = "i16" -> <<3, 2, 7, 6, 8>>
      [] k = "i32" -> <<2, 1, 4, 7, 4, 8, 3, 6, 4, 8>>
      [] k = "i64" -> I64_MIN_MAG
      [] OTHER -> <<0>>

InRange(n, k) ==
    IF n.neg THEN MagLeq(n.mag, RangeMinMag(k)) ELSE MagLeq(n.mag, RangeMax(k))

\* C17: from_value to an integer type on Integer(n) gives n when n is in the
\* range of the type and an error when it is not, a negative n for an unsigned
\* type included; it never gives another number.
C17_Integers ==
    pc = "extracted" /\ target.k \in SignedKinds \cup UnsignedKinds /\ encoded.t = "Integer"
        => back = IF InRange(encoded.n, target.k) THEN Done(Rec(target, encoded.n)) ELSE Err

\* C18: from_value to char gives the character of a String or StringOwned of
\* exactly one character, of however many bytes, and an error on a string of
\* another length and on every other variant.
C18_Char ==
    pc = "extracted" /\ target.k = "char"
        => back = IF encoded.t \in StrFamily /\ chars_count(encoded.b) = 1
                  THEN Done(Rec(target, encoded.b)) ELSE Err

\* the visitor pulled a key, then a value, then a key, and so on, and nothing
\* after the end of the map
InProtocol ==
    \A j \in 1..Len(pulls) :
        /\ pulls[j].call = IF j % 2 = 1 THEN "key" ELSE "value"
        /\ j > 1 => pulls[j - 1].out # NoKey

\* C19: when the visitor alternates one key pull and one value pull, the
\* access over a dictionary of n entries yields every entry once, every value
\* pull gives the value of the key pulled just before, and key pull n + 1
\* returns the end of the map without failing.
C19_Protocol ==
    access # Unset /\ InProtocol =>
        \A j \in 1..Len(pulls) :
            IF j % 2 = 0
            THEN /\ pulls[j - 1].out.k = "Some"
                 /\ pulls[j].out = Value(encoded.m[pulls[j - 1].out.key])
            ELSE IF (j + 1) \div 2 <= Cardinality(DOMAIN encoded.m)
            THEN /\ pulls[j].out.k = "Some"
                 /\ pulls[j].out.key \in DOMAIN encoded.m
                 /\ \A i \in 1..(j - 1) : i % 2 = 1 => pulls[i].out.key # pulls[j].out.key
            ELSE pulls[j].out = NoKey

\* three entries were pulled in turn and the seventh pull, a key pull, returned
\* the end of the map
C19_Witness ==
    /\ access # Unset
    /\ InProtocol
    /\ Cardinality(DOMAIN encoded.m) = 3
    /\ Len(pulls) = 7
    /\ pulls[7].out = NoKey

\* pull j breaks the alternation: a value pull that does not follow a key
\* pull, or a key pull while the value of the key before is not pulled
OutOfOrder(j) ==
    \/ pulls[j].call = "value" /\ (j = 1 \/ pulls[j - 1].call # "key")
    \/ /\ pulls[j].call = "key"
       /\ j > 1
       /\ pulls[j - 1].call = "key"
       /\ pulls[j - 1].out.k = "Some"

\* C20: every pull that breaks the alternation aborts: it returns no error,
\* no end of the map, and no key or value.
C20_Abort ==
    \A j \in 1..Len(pulls) : OutOfOrder(j) => pulls[j].out = Panic

\* C30: on a run of 1 to 20 digits base10_length returns the declared length
\* plus one, or an error; for no declared length does the addition wrap to a
\* smaller number or abort.
C30_LengthPlusOne ==
    pc = "parsed" /\ Len(LengthDigits(input)) >= 1 =>
        LET len == base10_length(input, overflow_checks)
            declared == Magnitude(LengthDigits(input))
        IN  /\ len # Panic
            /\ is_ok(len) =>
                  /\ len.v >= 1
                  /\ Len(declared) <= 9 => len.v = MagToNat(declared) + 1

\* rest is what is left of i after at least one byte of it
ProperSuffix(rest, i) ==
    /\ Len(rest) < Len(i)
    /\ rest = Drop(i, Len(i) - Len(rest) + 1)

\* C29: a parse that succeeds consumes at least one byte and returns as
\* remainder a proper suffix of its input, so the loops that repeat it end and
\* the bytes consumed and the remainder make up the input.
C29_Progress ==
    /\ pc = "parsed" /\ is_ok(parsed) => ProperSuffix(parsed.rest, input)
    /\ pc = "again" /\ is_ok(again) => ProperSuffix(again.rest, bytes)

\* a list or a dictionary was parsed, with bytes left after it
C29_Witness ==
    /\ pc = "parsed"
    /\ is_ok(parsed)
    /\ parsed.v.t \in {"List", "Dictionary"}
    /\ parsed.rest # <<>>
    /\ Len(input) - Len(parsed.rest) >= 5

\* v holds Binary, String, Integer, List and Dictionary only, at every depth
RECURSIVE Borrowed(_)
Borrowed(v) ==
    CASE v.t \in {"Binary", "String", "Integer"} -> TRUE
      [] v.t = "List" -> \A j \in 1..Len(v.l) : Borrowed(v.l[j])
      [] v.t = "Dictionary" -> \A key \in DOMAIN v.m : Borrowed(v.m[key])
      [] OTHER -> FALSE

\* C22: a value the parser returns holds no None and no owned variant at any
\* depth; parse_all and parse_all_incomplete return None only as the whole
\* result, and only when no value was decoded.
C22_ParserShape ==
    /\ pc = "partial" /\ is_ok(partial) =>
          IF partial.rest = input THEN partial.v = None ELSE Borrowed(partial.v)
    /\ pc = "all" /\ is_ok(all) =>
          IF input = <<>> THEN all.v = None ELSE Borrowed(all.v)

\* parse_all_incomplete returned a list that holds a list or a dictionary
C22_Witness ==
    /\ pc = "partial"
    /\ is_ok(partial)
    /\ partial.v.t = "List"
    /\ \E j \in 1..Len(partial.v.l) : partial.v.l[j].t \in {"List", "Dictionary"}
    /\ \E j \in 1..Len(partial.v.l) : partial.v.l[j].t = "String"

\* C26: == is an equivalence relation over the nine variants: every value
\* equals itself, a == b gives b == a, and a == b with b == c gives a == c.
C26_Equivalence ==
    pc = "compared" =>
        /\ eq(left, left) /\ eq(right, right)
        /\ same <=> mirrored
        /\ \A c \in EqOperands : same /\ eq(right, c) => eq(left, c)

\* the keys of a struct or a map and the record that each key goes with
KeyedFields(r) ==
    IF r.ty.k = "struct" THEN {<<r.ty.names[j], r.l[j]>> : j \in 1..Len(r.l)}
    ELSE {<<key, r.m[key]>> : key \in DOMAIN r.m}

\* C27: the DictionaryOwned made from a struct or a map with distinct keys has
\* one entry for every field or entry, and each key goes to the encoding of
\* its own value, absent options included.
C27_Alignment ==
    /\ pc = "value"
    /\ record.ty.k \in {"struct", "map"}
    /\ Cardinality({f[1] : f \in KeyedFields(record)}) = Cardinality(KeyedFields(record))
    => /\ encoded.t = "DictionaryOwned"
       /\ DOMAIN encoded.m = {f[1] : f \in KeyedFields(record)}
       /\ \A f \in KeyedFields(record) :
             f[1] \in DOMAIN encoded.m => <<encoded.m[f[1]]>> \in serialize(f[2])

\* the tuple of the elements of a List, each a BencodedValue
TupleOf(list) ==
    Rec(VecOf(Ty("value")), [j \in 1..Len(list) |-> Rec(Ty("value"), list[j])])

\* C21: parse_all on two or more complete values in a row gives the Value it
\* gives on the same bytes between l and e, so from_value reads the same tuple
\* from both; and to_bytes writes that tuple as l, a stream that parse_all
\* reads as the same Value, and e.
C21_StreamIsList ==
    pc = "all" /\ (\E vs \in Splits(input, overflow_checks) : Len(vs) >= 2) =>
        /\ is_ok(all)
        /\ all.v.t = "List"
        /\ parse_all(<<B_l>> \o input \o <<B_e>>, overflow_checks) = all
        /\ \A tv \in to_value(TupleOf(all.v.l)) :
              /\ tv # Panic
              /\ \A out \in write(tv) :
                    /\ Len(out) >= 2 /\ out[1] = B_l /\ out[Len(out)] = B_e
                    /\ parse_all(SubSeq(out, 2, Len(out) - 1), overflow_checks) = all
                    /\ parse_all(out, overflow_checks) = all

\* a string and a list in a row came back as a List of the two
C21_Witness ==
    /\ pc = "all"
    /\ is_ok(all)
    /\ \E vs \in Splits(input, overflow_checks) : Len(vs) >= 2
    /\ all.v.t = "List"
    /\ \E j \in 1..Len(all.v.l) : all.v.l[j].t \in {"List", "Dictionary"}
    /\ \E j \in 1..Len(all.v.l) : all.v.l[j].t = "String"

\* n wrapped modulo 2^32 into -2^31 .. 2^31 - 1, for the integers extracted
Wrap32(n) ==
    CASE InRange(n, "i32") -> n
      [] n = I64(FALSE, TWO_31) -> I64(TRUE, TWO_31)
      [] n = I64(FALSE, <<2, 1, 4, 7, 4, 8, 3, 6, 4, 9>>) -> I64(TRUE, RangeMax("i32"))
      [] n = I64(TRUE, <<2, 1, 4, 7, 4, 8, 3, 6, 4, 9>>) -> I64(FALSE, RangeMax("i32"))
      [] n = I64(FALSE, U32_MAX) -> I64(TRUE, <<1>>)
      [] n = I64(TRUE, U32_MAX) -> I64(FALSE, <<1>>)
      [] n.mag = <<4, 2, 9, 4, 9, 6, 7, 2, 9, 6>> -> I64(FALSE, <<0>>)
      [] n = I64(FALSE, I64_MAX) -> I64(TRUE, <<1>>)
      [] n = I64(TRUE, I64_MAX) -> I64(FALSE, <<1>>)
      [] n = I64_MIN -> I64(FALSE, <<0>>)

\* an f32 holds w: w has at most 24 significant bits
Exact24(w) ==
    \/ w.mag = TWO_31
    \/ \E q \in {1, 2, 4, 8, 16, 32, 64, 128} :
          MagToNat(w.mag) % q = 0 /\ MagToNat(w.mag) \div q < 16777216

\* a and w are less than 128 apart, on the same side of zero
Near(a, w) ==
    /\ a.neg = w.neg
    /\ IF a.mag = TWO_31 THEN w.mag = TWO_31 \/ MagToNat(w.mag) > 2147483520
       ELSE IF w.mag = TWO_31 THEN FALSE
       ELSE MagToNat(a.mag) - MagToNat(w.mag) \in -127..127

\* C23 as the spec has it: from_value to a float on Integer(n) gives n
\* wrapped to 32 bits signed, and so n itself when n fits, and an error on
\* every other variant.
C23_AsClaimed ==
    pc = "extracted" /\ target.k \in FloatKinds =>
        back = IF encoded.t = "Integer" THEN Done(Rec(target, Wrap32(encoded.n))) ELSE Err

\* C23, amended: to f64 it gives n wrapped to 32 bits signed; to f32 it gives
\* the f32 next to the wrapped n, which is the wrapped n exactly when that has
\* at most 24 significant bits; on every other variant it gives an error.
C23_Float ==
    pc = "extracted" /\ target.k \in FloatKinds =>
        IF encoded.t # "Integer" THEN back = Err
        ELSE IF target.k = "f64" THEN back = Done(Rec(target, Wrap32(encoded.n)))
        ELSE /\ is_ok(back)
             /\ back.v.ty = target
             /\ Exact24(back.v.n)
             /\ Near(back.v.n, Wrap32(encoded.n))
             /\ back.v.n = Wrap32(encoded.n) <=> Exact24(Wrap32(encoded.n))

\* 2^32 - 1 came back as the f32 -1.0 and 2^24 + 1 as the f32 2^24
C23_Witness ==
    /\ pc = "extracted"
    /\ target.k = "f32"
    /\ \/ encoded = Integer(I64(FALSE, U32_MAX)) /\ back = Done(Rec(target, I64(TRUE, <<1>>)))
       \/ /\ encoded = Integer(I64(FALSE, <<1, 6, 7, 7, 7, 2, 1, 7>>))
          /\ back = Done(Rec(target, I64(FALSE, <<1, 6, 7, 7, 7, 2, 1, 6>>)))

\* v is a value parse returns: text that is UTF-8 as a String, other bytes
\* as a Binary, and lists and dictionaries of such values
RECURSIVE Parsable(_)
Parsable(v) ==
    CASE v.t = "String" -> from_utf8(v.b)
      [] v.t = "Binary" -> ~from_utf8(v.b)
      [] v.t = "Integer" -> TRUE
      [] v.t = "List" -> \A j \in 1..Len(v.l) : Parsable(v.l[j])
      [] v.t = "Dictionary" ->
            \A key \in DOMAIN v.m : from_utf8(key) /\ Parsable(v.m[key])
      [] OTHER -> FALSE

\* C28: from_value::<BencodedValue>(v) is Ok of v itself for every Value the
\* parser can produce: a Binary stays a Binary and a Dictionary a Dictionary.
C28_ValueIdentity ==
    pc = "extracted" /\ target.k = "value" /\ Parsable(encoded) =>
        back = Done(Rec(target, encoded))

UnsupportedKinds == {"unit", "unit_struct", "tuple_variant", "struct_variant"}

Elements(v) ==
    IF v.t = "List" THEN v.l
    ELSE [j \in 1..Len(v.b) |-> Integer(I64(FALSE, Magnitude(NatToDec(v.b[j]))))]

\* C25: the sequence access over a List of n elements, or over a binary of n
\* bytes taken as the Integers equal to its bytes, hands element j to pull j
\* for j up to n, and returns None on pull n + 1 and on every later pull.
C25_SeqAccess ==
    access # Unset =>
        \A j \in 1..Len(pulls) :
            IF j <= Len(Elements(encoded))
            THEN pulls[j].out = from_value(pulls[j].ty, Elements(encoded)[j])
            ELSE pulls[j].out = NoKey

\* a List of three was pulled five times: the elements as they are, in their
\* order, and twice the end
C25_Witness ==
    /\ access # Unset
    /\ encoded.t = "List"
    /\ Len(encoded.l) = 3
    /\ Len(pulls) = 5
    /\ \A j \in 1..3 : pulls[j].out = Done(Rec(Ty("value"), encoded.l[j]))
    /\ pulls[4].out = NoKey /\ pulls[5].out = NoKey

====
